---------------------------- MODULE Spec2Model ----------------------------
(***************************************************************************)
(* A model of SQLAtomStorage (opencog/persist/sql/multi-driver): the       *)
(* SQL-backed store of atoms (nodes, links), their truth values and the    *)
(* values attached to them.                                                *)
(*                                                                         *)
(* The database is modelled as typed tables (PostgreSQL parses the array   *)
(* literals it is sent and prints its own text for them); the atom space,  *)
(* the TLB and the class server are the collaborators the storage calls.   *)
(***************************************************************************)
EXTENDS Integers, Sequences, FiniteSets, TLC

(***************************************************************************)
(* Class server: the runtime's type codes, in registration order.          *)
(***************************************************************************)
NOTYPE == 0
CONCEPT_NODE == 1
LIST_LINK == 2
FLOAT_VALUE == 3
STRING_VALUE == 4
LINK_VALUE == 5
SIMPLE_TRUTH_VALUE == 6
COUNT_TRUTH_VALUE == 7
INDEFINITE_TRUTH_VALUE == 8
PROBABILISTIC_TRUTH_VALUE == 9

TypeNames ==
    << "Notype", "ConceptNode", "ListLink", "FloatValue", "StringValue",
       "LinkValue", "SimpleTruthValue", "CountTruthValue",
       "IndefiniteTruthValue", "ProbabilisticTruthValue" >>

\* classserver().getNumberOfClasses()
getNumberOfClasses == Len(TypeNames)

\* classserver().getTypeName(t)
getTypeName(t) == TypeNames[t + 1]

\* classserver().getType(name): NOTYPE for a name the runtime does not know
getType(tname) ==
    IF \E i \in 1..Len(TypeNames) : TypeNames[i] = tname
    THEN (CHOOSE i \in 1..Len(TypeNames) : TypeNames[i] = tname) - 1
    ELSE NOTYPE

\* classserver().isA(t, NODE) and isA(t, LINK)
isNodeType(t) == t = CONCEPT_NODE
isLinkType(t) == t = LIST_LINK

\* TLB::INVALID_UUID, (UUID) -1
INVALID_UUID == -1

(***************************************************************************)
(* Doubles.  A double is a decimal m * 10^e, normalised (m = 0 gives       *)
(* e = 0, otherwise 10 does not divide m).  printf is modelled by the      *)
(* decimal it prints.                                                      *)
(***************************************************************************)
Dbl(m, e) == [m |-> m, e |-> e]

RECURSIVE Pow10(_)
Pow10(k) == IF k <= 0 THEN 1 ELSE 10 * Pow10(k - 1)

RECURSIVE NumDigits(_)
NumDigits(m) == IF m < 10 THEN 1 ELSE 1 + NumDigits(m \div 10)

RECURSIVE Normalize(_, _)
Normalize(m, e) ==
    IF m = 0 THEN Dbl(0, 0)
    ELSE IF m % 10 = 0 THEN Normalize(m \div 10, e + 1)
    ELSE Dbl(m, e)

\* m / p rounded to the nearest integer
RoundDiv(m, p) == (m + (p \div 2)) \div p

\* snprintf(buff, BUFSZ, "%12.8g", fval): eight significant digits
SigDigits_g == 8

\* std::to_string(double) is printf("%f"): six digits after the point
FracDigits_f == 6

\* The decimal that STMTF writes for a double.
STMTF(d) ==
    LET nd == NumDigits(d.m) IN
    IF nd <= SigDigits_g THEN d
    ELSE Normalize(RoundDiv(d.m, Pow10(nd - SigDigits_g)),
                   d.e + (nd - SigDigits_g))

\* The decimal that std::to_string writes for a double.
to_string_double(d) ==
    IF d.e >= 0 - FracDigits_f THEN d
    ELSE Normalize(RoundDiv(d.m, Pow10((0 - FracDigits_f) - d.e)),
                   0 - FracDigits_f)

(***************************************************************************)
(* Text.  A C string is a sequence of one-character strings.               *)
(***************************************************************************)
NUL == "NUL"
At(s, p) == IF p >= 1 /\ p <= Len(s) THEN s[p] ELSE NUL

DigitChars == << "0", "1", "2", "3", "4", "5", "6", "7", "8", "9" >>
IsDigit(c) == \E i \in 1..10 : DigitChars[i] = c
DigitVal(c) == (CHOOSE i \in 1..10 : DigitChars[i] = c) - 1

\* std::to_string of an unsigned integer / printf("%lu")
RECURSIVE to_string(_)
to_string(n) ==
    IF n < 10 THEN << DigitChars[n + 1] >>
    ELSE to_string(n \div 10) \o << DigitChars[(n % 10) + 1] >>

\* strtoul(s + p, &end, 10): [val, end]; without a digit at p it converts
\* nothing, returns 0 and leaves end at p.
RECURSIVE strtoul_from(_, _, _)
strtoul_from(s, p, acc) ==
    IF IsDigit(At(s, p)) THEN strtoul_from(s, p + 1, 10 * acc + DigitVal(s[p]))
    ELSE [val |-> acc, end |-> p]

RECURSIVE SkipSpaces(_, _)
SkipSpaces(s, p) == IF At(s, p) = " " THEN SkipSpaces(s, p + 1) ELSE p

strtoul(s, p) ==
    LET q == SkipSpaces(s, p) IN
    IF IsDigit(At(s, q)) THEN strtoul_from(s, q, 0)
    ELSE [val |-> 0, end |-> p]

\* atoi(s + p).  The ids of the model stay below 2^31, where atoi is the
\* decimal value read.
atoi(s, p) == strtoul(s, p).val

\* strchr(s + p, c): the index of the first c at or after p, 0 for NULL
RECURSIVE strchr(_, _, _)
strchr(s, p, c) ==
    IF p > Len(s) THEN 0
    ELSE IF s[p] = c THEN p
    ELSE strchr(s, p + 1, c)

RECURSIVE Join(_, _)
Join(parts, sep) ==
    IF parts = << >> THEN << >>
    ELSE IF Len(parts) = 1 THEN parts[1]
    ELSE parts[1] \o sep \o Join(Tail(parts), sep)

(***************************************************************************)
(* PostgreSQL's array input and output functions, for the characters the   *)
(* model sends: letters, digits, blanks, commas and double quotes.         *)
(***************************************************************************)
RECURSIVE TrimRight(_)
TrimRight(s) ==
    IF s # << >> /\ s[Len(s)] = " " THEN TrimRight(SubSeq(s, 1, Len(s) - 1))
    ELSE s

\* array_in on the text between the braces: [ok, elems].  st is the scanner
\* state: "first" before any element, "start" after a comma, "unq" in an
\* unquoted element, "inq" in a quoted one, "afterq" after a closing quote.
RECURSIVE array_in_scan(_, _, _, _, _)
array_in_scan(body, i, st, cur, acc) ==
    LET c == At(body, i) IN
    IF i > Len(body) THEN
        CASE st = "first" -> [ok |-> TRUE, elems |-> << >>]
          [] st = "start" -> [ok |-> FALSE, elems |-> << >>]
          [] st = "unq" -> [ok |-> TRUE, elems |-> Append(acc, TrimRight(cur))]
          [] st = "inq" -> [ok |-> FALSE, elems |-> << >>]
          [] OTHER -> [ok |-> TRUE, elems |-> Append(acc, cur)]
    ELSE IF c \in {"{", "}", "\\"} THEN [ok |-> FALSE, elems |-> << >>]
    ELSE CASE st \in {"first", "start"} ->
                IF c = " " THEN array_in_scan(body, i + 1, st, cur, acc)
                ELSE IF c = "," THEN [ok |-> FALSE, elems |-> << >>]
                ELSE IF c = "\"" THEN array_in_scan(body, i + 1, "inq", << >>, acc)
                ELSE array_in_scan(body, i + 1, "unq", << c >>, acc)
           [] st = "unq" ->
                IF c = "," THEN
                    array_in_scan(body, i + 1, "start", << >>,
                                  Append(acc, TrimRight(cur)))
                ELSE IF c = "\"" THEN [ok |-> FALSE, elems |-> << >>]
                ELSE array_in_scan(body, i + 1, "unq", Append(cur, c), acc)
           [] st = "inq" ->
                IF c = "\"" THEN array_in_scan(body, i + 1, "afterq", cur, acc)
                ELSE array_in_scan(body, i + 1, "inq", Append(cur, c), acc)
           [] OTHER ->
                IF c = " " THEN array_in_scan(body, i + 1, st, cur, acc)
                ELSE IF c = "," THEN
                    array_in_scan(body, i + 1, "start", << >>, Append(acc, cur))
                ELSE [ok |-> FALSE, elems |-> << >>]

\* array_in on a literal  {...}
array_in(lit) ==
    IF Len(lit) >= 2 /\ lit[1] = "{" /\ lit[Len(lit)] = "}"
    THEN array_in_scan(SubSeq(lit, 2, Len(lit) - 1), 1, "first", << >>, << >>)
    ELSE [ok |-> FALSE, elems |-> << >>]

\* array_out quotes an element that is empty or holds a delimiter, a quote,
\* a brace, a backslash or a blank.
array_out_elem(el) ==
    IF el = << >> \/ \E i \in 1..Len(el) : el[i] \in {",", "\"", "{", "}", "\\", " "}
    THEN << "\"" >> \o el \o << "\"" >>
    ELSE el

array_out(elems) ==
    << "{" >> \o Join([i \in 1..Len(elems) |-> array_out_elem(elems[i])], << "," >>)
              \o << "}" >>

\* bigint[] input: every element a decimal number
bigint_array_in(lit) ==
    LET r == array_in(lit) IN
    IF r.ok /\ \A i \in 1..Len(r.elems) :
                  /\ r.elems[i] # << >>
                  /\ \A j \in 1..Len(r.elems[i]) : IsDigit(r.elems[i][j])
    THEN [ok |-> TRUE,
          elems |-> [i \in 1..Len(r.elems) |-> strtoul(r.elems[i], 1).val]]
    ELSE [ok |-> FALSE, elems |-> << >>]

bigint_array_out(nums) ==
    << "{" >> \o Join([i \in 1..Len(nums) |-> to_string(nums[i])], << "," >>)
              \o << "}" >>

(***************************************************************************)
(* Values in memory (FloatValue, StringValue, LinkValue).  A string is a   *)
(* sequence of characters; the field a kind does not use is empty.         *)
(***************************************************************************)
createFloatValue(fltarr) ==
    [type |-> FLOAT_VALUE, flt |-> fltarr, str |-> << >>, lnk |-> << >>]
createStringValue(strarr) ==
    [type |-> STRING_VALUE, flt |-> << >>, str |-> strarr, lnk |-> << >>]
createLinkValue(lnkarr) ==
    [type |-> LINK_VALUE, flt |-> << >>, str |-> << >>, lnk |-> lnkarr]

\* What a call returns: st is "ok", or "undefined" when the call read a
\* Response field no row had set.
Ret(st, v) == [st |-> st, v |-> v]
NoValue == createFloatValue(<< >>)

(***************************************************************************)
(* Columns and rows.  A column is << >> (NULL) or << v >>.                  *)
(***************************************************************************)
NullCol == << >>
Col(v) == << v >>

ValueCols(vtype, fcol, scol, lcol) ==
    [type |-> vtype, floatvalue |-> fcol, stringvalue |-> scol, linkvalue |-> lcol]

\* The text a driver hands to get_value_column_cb for floatvalue: the
\* numbers of the array between braces and commas.
FloatTok(c, d) == [c |-> c, d |-> d]
float_array_out(nums) ==
    << FloatTok("{", Dbl(0, 0)) >>
    \o Join([i \in 1..Len(nums) |-> << FloatTok("num", nums[i]) >>],
            << FloatTok(",", Dbl(0, 0)) >>)
    \o << FloatTok("}", Dbl(0, 0)) >>

(***************************************************************************)
(* The encoders: the array literal each sends to the database.             *)
(***************************************************************************)
\* float_to_string: '{d1, d2, ...}', each double by std::to_string
float_to_string(fvle) == [i \in 1..Len(fvle) |-> to_string_double(fvle[i])]

\* string_to_string: '{s1, s2, ...}', each string as it is
string_to_string(svle) == << "{" >> \o Join(svle, << ",", " " >>) \o << "}" >>

\* oset_to_string and link_to_string: '{u1, u2, ...}' for ids already known
ids_to_string(ids) ==
    << "{" >> \o Join([i \in 1..Len(ids) |-> to_string(ids[i])], << ",", " " >>)
              \o << "}" >>

(***************************************************************************)
(* The decoders of doUnpackValue, deleteValue and makeAtom.                *)
(***************************************************************************)
\* doUnpackValue, STRING_VALUE: split rp.strval along the commas
RECURSIVE unpack_strings(_, _, _)
unpack_strings(s, p, strarr) ==
    IF At(s, p) \in {"}", NUL} THEN strarr
    ELSE
      LET comma == strchr(s, p, ",")
          c == IF comma # 0 THEN comma ELSE strchr(s, p, "}")
          p1 == IF s[p] = "\"" THEN p + 1 ELSE p
          endp == IF c # 0 /\ At(s, c - 1) = "\"" /\ c - 1 >= p1 THEN c - 1
                  ELSE IF c # 0 THEN c ELSE Len(s) + 1
      IN IF c = 0 THEN Append(strarr, SubSeq(s, p1, Len(s)))
         ELSE unpack_strings(s, c + 1, Append(strarr, SubSeq(s, p1, endp - 1)))

unpack_string_value(strval) ==
    unpack_strings(strval, IF At(strval, 1) = "{" THEN 2 ELSE 1, << >>)

\* doUnpackValue, FLOAT_VALUE: strtod, then step over the comma
RECURSIVE unpack_floats(_, _, _)
unpack_floats(toks, p, fltarr) ==
    IF p > Len(toks) \/ toks[p].c = "}" THEN fltarr
    ELSE IF toks[p].c = "num" THEN unpack_floats(toks, p + 2, Append(fltarr, toks[p].d))
    ELSE unpack_floats(toks, p + 1, Append(fltarr, Dbl(0, 0)))

unpack_float_value(fltval) ==
    unpack_floats(fltval, IF fltval # << >> /\ fltval[1].c = "{" THEN 2 ELSE 1, << >>)

\* The list of ids in rp.lnkval: atoi, then strchr to the next comma
RECURSIVE unpack_ids(_, _, _)
unpack_ids(s, p, ids) ==
    IF p = 0 \/ At(s, p) \in {"}", NUL} THEN ids
    ELSE LET comma == strchr(s, p, ",")
         IN unpack_ids(s, IF comma = 0 THEN 0 ELSE comma + 1, Append(ids, atoi(s, p)))

unpack_link_ids(lnkval) ==
    unpack_ids(lnkval, IF At(lnkval, 1) = "{" THEN 2 ELSE 1, << >>)

\* makeAtom: the outgoing set in rp.outlist, strtoul(p+1, &p, 10) until '}'
RECURSIVE unpack_outlist(_, _, _)
unpack_outlist(s, p, oset) ==
    IF At(s, p) \in {"}", NUL} THEN oset
    ELSE LET r == strtoul(s, p + 1)
         IN unpack_outlist(s, r.end, Append(oset, r.val))

(***************************************************************************)
(* Atoms and truth values in memory.  An atom is known by its content.     *)
(***************************************************************************)
createNode(t, name) == [type |-> t, name |-> name, out |-> << >>]
createLink(t, oset) == [type |-> t, name |-> "", out |-> oset]
isNode(h) == isNodeType(h.type)
isLink(h) == isLinkType(h.type)
NoAtom == createNode(NOTYPE, "")

\* A truth value: its type and three doubles.  Simple, Count and
\* Probabilistic hold (mean, confidence, count), Indefinite (L, U, level).
TV(t, v1, v2, v3) == [type |-> t, v1 |-> v1, v2 |-> v2, v3 |-> v3]
\* SimpleTruthValue derives its count from the confidence.
SimpleCount(conf) == Dbl(0, 0)
SimpleTV(mean, conf) == TV(SIMPLE_TRUTH_VALUE, mean, conf, SimpleCount(conf))
CountTV(mean, conf, count) == TV(COUNT_TRUTH_VALUE, mean, conf, count)
IndefiniteTV(l, u, level) == TV(INDEFINITE_TRUTH_VALUE, l, u, level)
ProbabilisticTV(mean, conf, count) == TV(PROBABILISTIC_TRUTH_VALUE, mean, conf, count)
DefaultTV == SimpleTV(Dbl(1, 0), Dbl(0, 0))

\* An atom's object in memory: its truth value and its values by key.
Obj(tv, vals) == [tv |-> tv, vals |-> vals]
NoVals == [k \in {} |-> NoValue]
NewObj == Obj(DefaultTV, NoVals)

\* A function with one more point.
Put(f, k, v) == [y \in (DOMAIN f) \cup {k} |-> IF y = k THEN v ELSE f[y]]
Get(f, k, dflt) == IF k \in DOMAIN f THEN f[k] ELSE dflt
Drop(f, k) == [y \in (DOMAIN f) \ {k} |-> f[y]]

RECURSIVE SetToSeq(_)
SetToSeq(S) ==
    IF S = {} THEN << >>
    ELSE LET y == CHOOSE y \in S : TRUE IN << y >> \o SetToSeq(S \ {y})

Max(a, b) == IF a < b THEN b ELSE a

\* F applied to the value of e: a local whose value is computed once.
Let(e, F(_)) == CHOOSE r \in {F(v) : v \in {e}} : TRUE

(***************************************************************************)
(* The TLB (_tlbuf): handle <-> UUID.  h2u is the bound handles' map, brk  *)
(* the next UUID to issue.                                                 *)
(***************************************************************************)
tlb_getUUID(M, h) == Get(M.h2u, h, INVALID_UUID)

tlb_getAtom(M, uuid) ==
    IF \E h \in DOMAIN M.h2u : M.h2u[h] = uuid
    THEN CHOOSE h \in DOMAIN M.h2u : M.h2u[h] = uuid
    ELSE NoAtom

tlb_reserve_upto_mut(M, n) == M

tlb_reserve_upto(M, n) == [M EXCEPT !.brk = Max(M.brk, n + 1)]

\* addAtom(h, hint): [M, uuid].  A bound handle keeps its UUID; a valid,
\* unused hint is bound; otherwise a fresh UUID is issued.
tlb_addAtom(M, h, hint) ==
    IF h \in DOMAIN M.h2u THEN [M |-> M, uuid |-> M.h2u[h]]
    ELSE IF hint # INVALID_UUID /\ tlb_getAtom(M, hint) = NoAtom
    THEN [M |-> [M EXCEPT !.h2u = Put(M.h2u, h, hint), !.brk = Max(M.brk, hint + 1)],
          uuid |-> hint]
    ELSE [M |-> [M EXCEPT !.h2u = Put(M.h2u, h, M.brk), !.brk = M.brk + 1],
          uuid |-> M.brk]

tlb_removeAtom(M, h) ==
    [M EXCEPT !.h2u = Drop(M.h2u, h), !.fetched = Drop(M.fetched, h)]

(***************************************************************************)
(* The type-code map.                                                      *)
(***************************************************************************)
TYPEMAP_SZ == 65536

set_typemap(M, dbval, tname) ==
    LET realtype == getType(tname) IN
    [M EXCEPT !.loading_typemap = Put(M.loading_typemap, dbval, realtype),
              !.storing_typemap = Put(M.storing_typemap, realtype, dbval),
              !.db_typename = Put(M.db_typename, dbval, tname)]

\* type_cb over the rows of SELECT * FROM TypeCodes
RECURSIVE type_cb_rows(_, _)
type_cb_rows(M, rows) ==
    IF rows = {} THEN M
    ELSE LET r == CHOOSE r \in rows : \A q \in rows : r.type <= q.type
         IN type_cb_rows(set_typemap(M, r.type, r.typename), rows \ {r})

\* INSERT INTO TypeCodes: both columns are UNIQUE
insert_TypeCodes(M, sqid, tname) ==
    IF \E r \in M.TypeCodes : r.type = sqid \/ r.typename = tname THEN M
    ELSE [M EXCEPT !.TypeCodes = @ \cup {[type |-> sqid, typename |-> tname]}]

lowest_unused_sqid_mut(M) ==
    CHOOSE i \in 0..TYPEMAP_SZ :
        /\ i \in DOMAIN M.db_typename
        /\ \A j \in 0..(i - 1) : j \notin DOMAIN M.db_typename

lowest_unused_sqid(M) ==
    CHOOSE i \in 0..TYPEMAP_SZ :
        /\ i \notin DOMAIN M.db_typename
        /\ \A j \in 0..(i - 1) : j \in DOMAIN M.db_typename

RECURSIVE setup_typemap_types(_, _)
setup_typemap_types(M, t) ==
    IF t >= getNumberOfClasses THEN M
    ELSE IF Get(M.storing_typemap, t, -1) # -1 THEN setup_typemap_types(M, t + 1)
    ELSE LET tname == getTypeName(t)
             sqid == IF t \in DOMAIN M.db_typename /\ Get(M.loading_typemap, t, NOTYPE) # t
                     THEN lowest_unused_sqid(M)
                     ELSE t
         IN setup_typemap_types(
                insert_TypeCodes(set_typemap(M, sqid, tname), sqid, tname), t + 1)

EmptyMap == [k \in {} |-> 0]
EmptyNames == [k \in {} |-> ""]

setup_typemap(M) ==
    IF M.type_map_was_loaded THEN M
    ELSE LET M0 == [M EXCEPT !.loading_typemap = EmptyMap,
                             !.storing_typemap = EmptyMap,
                             !.db_typename = EmptyNames]
             M1 == type_cb_rows(M0, M.TypeCodes)
             M2 == setup_typemap_types(M1, 0)
         IN [M2 EXCEPT !.type_map_was_loaded = TRUE]

storing(M, t) == Get(M.storing_typemap, t, -1)
loading(M, c) == Get(M.loading_typemap, c, NOTYPE)

(***************************************************************************)
(* The id caches.                                                          *)
(***************************************************************************)
USTEP == 12003

\* The chunks (rec, rec + step] that a loop  for (rec = 0; rec <= max; rec += step)
\* asks for.
ChunkStarts(max_nrec, step) == {rec \in 0..max_nrec : rec % step = 0}
InChunk_mut(uuid, rec, step) == uuid >= rec /\ uuid <= rec + step

\* WHERE uuid > rec AND uuid <= rec + step
InChunk(uuid, rec, step) == uuid > rec /\ uuid <= rec + step
InChunks(uuid, max_nrec, step) ==
    \E rec \in ChunkStarts(max_nrec, step) : InChunk(uuid, rec, step)

getMaxObservedUUID(M) ==
    IF M.Atoms = {} THEN 0
    ELSE CHOOSE u \in {r.uuid : r \in M.Atoms} : \A r \in M.Atoms : r.uuid <= u

getMaxObservedVUID(M) ==
    IF M.Values = {} THEN 0
    ELSE CHOOSE u \in {r.vuid : r \in M.Values} : \A r \in M.Values : r.vuid <= u

getMaxObservedHeight(M) ==
    IF M.Atoms = {} THEN 0
    ELSE CHOOSE u \in {r.height : r \in M.Atoms} : \A r \in M.Atoms : r.height <= u

get_ids(M) ==
    IF M.local_id_cache_is_inited THEN M
    ELSE [M EXCEPT !.local_id_cache_is_inited = TRUE,
                   !.local_id_cache =
                       {r.uuid : r \in {q \in M.Atoms :
                            InChunks(q.uuid, getMaxObservedUUID(M), USTEP)}},
                   !.table_id_cache = M.Spaces]

add_id_to_cache(M, uuid) ==
    [M EXCEPT !.local_id_cache = @ \cup {uuid},
              !.id_create_cache = @ \ {uuid}]

(***************************************************************************)
(* Values and Valuations.  M is the whole state of the store and of the    *)
(* database; every operation returns the state it leaves.                  *)
(***************************************************************************)
\* The row a literal makes, or no row when the server rejects the literal.
\* Only stringvalue can be rejected: its text is the caller's.
ValueRowCols(pap, lstr) ==
    IF pap.type = FLOAT_VALUE
    THEN [ok |-> TRUE,
          cols |-> ValueCols(pap.type, Col(float_to_string(pap.flt)), NullCol, NullCol)]
    ELSE IF pap.type = STRING_VALUE
    THEN LET parsed == array_in(string_to_string(pap.str))
         IN [ok |-> parsed.ok,
             cols |-> ValueCols(pap.type, NullCol, Col(parsed.elems), NullCol)]
    ELSE LET parsed == bigint_array_in(ids_to_string(lstr))
         IN [ok |-> parsed.ok,
             cols |-> ValueCols(pap.type, NullCol, NullCol, Col(parsed.elems))]

ValuesRow(vuid, c) ==
    [vuid |-> vuid, type |-> c.type, floatvalue |-> c.floatvalue,
     stringvalue |-> c.stringvalue, linkvalue |-> c.linkvalue]

ValuationsRow(key, atom, c) ==
    [key |-> key, atom |-> atom, type |-> c.type, floatvalue |-> c.floatvalue,
     stringvalue |-> c.stringvalue, linkvalue |-> c.linkvalue]

\* INSERT INTO Values: vuid is the primary key
insert_Values(M, vuid, rc) ==
    IF ~rc.ok \/ \E r \in M.Values : r.vuid = vuid THEN M
    ELSE [M EXCEPT !.Values = @ \cup {ValuesRow(vuid, rc.cols)}]

\* INSERT INTO Valuations: key and atom reference Atoms(uuid), and
\* (key, atom) is UNIQUE
insert_Valuations(M, key, atom, rc) ==
    IF \/ ~rc.ok
       \/ \E r \in M.Valuations : r.key = key /\ r.atom = atom
       \/ ~\E r \in M.Atoms : r.uuid = key
       \/ ~\E r \in M.Atoms : r.uuid = atom
    THEN M
    ELSE [M EXCEPT !.Valuations = @ \cup {ValuationsRow(key, atom, rc.cols)}]

RECURSIVE storeValue(_, _)
RECURSIVE link_to_string(_, _, _)
\* link_to_string: stores each member, collects the VUIDs
link_to_string(M, lvle, ids) ==
    IF lvle = << >> THEN [M |-> M, ids |-> ids]
    ELSE Let(storeValue(M, Head(lvle)), LAMBDA r :
             link_to_string(r.M, Tail(lvle), Append(ids, r.vuid)))

storeValue(M, pap) ==
    Let(IF pap.type = LINK_VALUE
        THEN link_to_string([M EXCEPT !.next_valid = @ + 1], pap.lnk, << >>)
        ELSE [M |-> [M EXCEPT !.next_valid = @ + 1], ids |-> << >>],
        LAMBDA l :
            [M |-> insert_Values(l.M, M.next_valid, ValueRowCols(pap, l.ids)),
             vuid |-> M.next_valid])

\* What get_value_column_cb leaves in a Response after one row
ColText(col, out(_), null) == IF col = NullCol THEN null ELSE out(col[1])
RowResponse(r) ==
    [vtype |-> r.type,
     fltval |-> ColText(r.floatvalue, float_array_out, << >>),
     strval |-> ColText(r.stringvalue, array_out, << >>),
     lnkval |-> ColText(r.linkvalue, bigint_array_out, << >>)]

RECURSIVE getValue(_, _)
RECURSIVE unpack_link_value(_, _, _)
RECURSIVE doUnpackValue(_, _)
unpack_link_value(M, ids, lnkarr) ==
    IF ids = << >> THEN Ret("ok", createLinkValue(lnkarr))
    ELSE Let(getValue(M, Head(ids)), LAMBDA pap :
             IF pap.st # "ok" THEN pap
             ELSE unpack_link_value(M, Tail(ids), Append(lnkarr, pap.v)))

doUnpackValue(M, rp) ==
    IF rp.vtype = STRING_VALUE
    THEN Ret("ok", createStringValue(unpack_string_value(rp.strval)))
    ELSE IF rp.vtype = FLOAT_VALUE
    THEN Ret("ok", createFloatValue(unpack_float_value(rp.fltval)))
    ELSE IF rp.vtype = LINK_VALUE
    THEN unpack_link_value(M, unpack_link_ids(rp.lnkval), << >>)
    ELSE Ret("exception", NoValue)

\* doGetValue: with no row, the Response fields keep what the
\* constructor left: nothing.
doGetValue(M, rows) ==
    IF rows = {} THEN Ret("undefined", NoValue)
    ELSE doUnpackValue(M, RowResponse(CHOOSE r \in rows : TRUE))

getValue(M, vuid) == doGetValue(M, {r \in M.Values : r.vuid = vuid})

getValuation(M, key, atom) ==
    doGetValue(M, {r \in M.Valuations :
                     r.key = tlb_getUUID(M, key) /\ r.atom = tlb_getUUID(M, atom)})

\* deleteValue.  With no row for vuid, vtype and lnkval are read
\* uninitialised: M.stale is what they then hold.
RECURSIVE deleteValue(_, _)
RECURSIVE deleteValues(_, _)
deleteValues(M, ids) ==
    IF ids = << >> THEN M
    ELSE deleteValues(deleteValue(M, Head(ids)), Tail(ids))

deleteValue(M, vuid) ==
    Let({r \in M.Values : r.vuid = vuid}, LAMBDA rows :
    Let(IF rows = {} THEN M.stale ELSE RowResponse(CHOOSE r \in rows : TRUE),
        LAMBDA rp :
    Let(IF rows = {} THEN [M EXCEPT !.ub = TRUE] ELSE M, LAMBDA M0 :
    \* a stale list is followed once: the rows it names may be gone
    Let(IF rp.vtype = LINK_VALUE
        THEN deleteValues([M0 EXCEPT !.stale.vtype = NOTYPE],
                          unpack_link_ids(rp.lnkval))
        ELSE M0,
        LAMBDA M1 :
            [M1 EXCEPT !.Values = {r \in @ : r.vuid # vuid},
                       !.stale = M.stale]))))

deleteValuation_mut(M, key, atom) ==
    [M EXCEPT !.Valuations =
        {r \in @ : ~(r.key = tlb_getUUID(M, key) /\ r.atom = tlb_getUUID(M, atom))}]

deleteValuation(M, key, atom) ==
    Let(tlb_getUUID(M, key), LAMBDA k :
    Let(tlb_getUUID(M, atom), LAMBDA a :
    Let({r \in M.Valuations : r.key = k /\ r.atom = a}, LAMBDA rows :
    Let(IF rows = {} THEN 0 ELSE (CHOOSE r \in rows : TRUE).type, LAMBDA vtype :
    Let(IF vtype = LINK_VALUE
        THEN deleteValues(M, unpack_link_ids(
                 RowResponse(CHOOSE r \in rows : TRUE).lnkval))
        ELSE M,
        LAMBDA M1 :
            IF vtype # 0
            THEN [M1 EXCEPT !.Valuations =
                                {r \in @ : ~(r.key = k /\ r.atom = a)}]
            ELSE M1)))))

storeValuation(M, key, atom, pap) ==
    Let(deleteValuation(M, key, atom), LAMBDA M1 :
    Let(IF pap.type = LINK_VALUE THEN link_to_string(M1, pap.lnk, << >>)
        ELSE [M |-> M1, ids |-> << >>],
        LAMBDA l :
            insert_Valuations(l.M, tlb_getUUID(M, key), tlb_getUUID(M, atom),
                              ValueRowCols(pap, l.ids))))

(***************************************************************************)
(* Atoms: the statements and the handlers that issue them.                 *)
(***************************************************************************)
AtomsRow(uuid, space, type, height, name, outgoing, tvcols) ==
    [uuid |-> uuid, space |-> space, type |-> type, height |-> height,
     name |-> name, outgoing |-> outgoing, tv_type |-> tvcols.tv_type,
     stv_mean |-> tvcols.stv_mean, stv_confidence |-> tvcols.stv_confidence,
     stv_count |-> tvcols.stv_count]

TVCols_mut(tv) ==
    [tv_type |-> tv.type, stv_mean |-> STMTF(tv.v1),
     stv_confidence |-> STMTF(tv.v2), stv_count |-> STMTF(tv.v3)]

\* The truth-value columns of do_store_single_atom, each double by STMTF.
\* An indefinite value puts L, U and the level in mean, count, confidence.
TVCols(tv) ==
    IF tv.type = INDEFINITE_TRUTH_VALUE
    THEN [tv_type |-> tv.type, stv_mean |-> STMTF(tv.v1),
          stv_count |-> STMTF(tv.v2), stv_confidence |-> STMTF(tv.v3)]
    ELSE [tv_type |-> tv.type, stv_mean |-> STMTF(tv.v1),
          stv_confidence |-> STMTF(tv.v2), stv_count |-> STMTF(tv.v3)]

KnownTVType(tvt) ==
    tvt \in {SIMPLE_TRUTH_VALUE, COUNT_TRUTH_VALUE, PROBABILISTIC_TRUTH_VALUE,
             INDEFINITE_TRUTH_VALUE}

\* INSERT INTO Atoms: uuid is the primary key, space references Spaces,
\* (type, name) and (type, outgoing) are UNIQUE (NULLs never collide).
insert_Atoms_ok(M, row) ==
    /\ ~\E r \in M.Atoms : r.uuid = row.uuid
    /\ row.space \in M.Spaces
    /\ ~\E r \in M.Atoms : r.type = row.type /\ row.name # NullCol /\ r.name = row.name
    /\ ~\E r \in M.Atoms :
            r.type = row.type /\ row.outgoing # NullCol /\ r.outgoing = row.outgoing

insert_Atoms(M, row) ==
    IF insert_Atoms_ok(M, row) THEN [M EXCEPT !.Atoms = @ \cup {row}] ELSE M

update_Atoms_mut(M, uuid, tvcols) ==
    [M EXCEPT !.Atoms =
        {IF r.uuid = uuid
         THEN [r EXCEPT !.tv_type = tvcols.tv_type, !.height = @ + 1]
         ELSE r : r \in @}]

\* UPDATE Atoms SET tv_type, stv_mean, stv_confidence, stv_count WHERE uuid
update_Atoms(M, uuid, tvcols) ==
    [M EXCEPT !.Atoms =
        {IF r.uuid = uuid
         THEN [r EXCEPT !.tv_type = tvcols.tv_type, !.stv_mean = tvcols.stv_mean,
                        !.stv_confidence = tvcols.stv_confidence,
                        !.stv_count = tvcols.stv_count]
         ELSE r : r \in @}]

\* store_atomtable_id of the one atom table, whose parent is space 1
store_atomtable_id(M) ==
    IF M.table_uuid \in M.table_id_cache THEN M
    ELSE [M EXCEPT !.table_id_cache = @ \cup {M.table_uuid},
                   !.Spaces = @ \cup {M.table_uuid}]

\* What the store remembers of the statements it issued and of the
\* handles it returned: op, the atom, the UUID, and whether a row with
\* the atom's key was there.
LogEntry(op, h, uuid, had_row) ==
    [op |-> op, h |-> h, uuid |-> uuid, had_row |-> had_row]

Throw(M, what) == [M EXCEPT !.exc = what]

\* The pseudo-atom makeAtom builds from a row.  height 0: a node;
\* -1: unknown, decided by the type; otherwise a link.
OutlistText(r) == IF r.outgoing = NullCol THEN << >> ELSE bigint_array_out(r.outgoing[1])

RowTV(r) ==
    IF r.tv_type = SIMPLE_TRUTH_VALUE THEN SimpleTV(r.stv_mean, r.stv_confidence)
    ELSE IF r.tv_type = COUNT_TRUTH_VALUE
    THEN CountTV(r.stv_mean, r.stv_confidence, r.stv_count)
    ELSE IF r.tv_type = INDEFINITE_TRUTH_VALUE
    THEN IndefiniteTV(r.stv_mean, r.stv_count, r.stv_confidence)
    ELSE ProbabilisticTV(r.stv_mean, r.stv_confidence, r.stv_count)

NoPseudo == [type |-> NOTYPE, name |-> "", oset |-> << >>, uuid |-> INVALID_UUID,
             tv |-> DefaultTV]

makeAtom(M, r, height) ==
    LET realtype == loading(M, r.type) IN
    IF realtype = NOTYPE THEN [M |-> Throw(M, "makeAtom: no such type"), p |-> NoPseudo]
    ELSE IF ~KnownTVType(r.tv_type)
    THEN [M |-> Throw(M, "makeAtom: Unknown truth value type"), p |-> NoPseudo]
    ELSE LET asNode == height = 0 \/ (height = -1 /\ isNodeType(realtype))
         IN [M |-> [add_id_to_cache(M, r.uuid) EXCEPT !.load_count = @ + 1],
             p |-> [type |-> realtype,
                    name |-> IF asNode /\ r.name # NullCol THEN r.name[1] ELSE "",
                    oset |-> IF asNode THEN << >>
                             ELSE unpack_outlist(OutlistText(r), 1, << >>),
                    uuid |-> r.uuid,
                    tv |-> RowTV(r)]]

\* getAtom: the pseudo-atom of the row a query found, if it found one
getAtom(M, rows, height) ==
    IF rows = {} THEN [M |-> M, found |-> FALSE, p |-> NoPseudo]
    ELSE Let(makeAtom(M, CHOOSE r \in rows : TRUE, height), LAMBDA m :
             [M |-> m.M, found |-> m.M.exc = "", p |-> m.p])

petAtom(M, uuid) ==
    Let(setup_typemap(M), LAMBDA M1 :
        getAtom(M1, {r \in M1.Atoms : r.uuid = uuid}, -1))

\* The object the TLB's handle of h points to: the one a fetch created
\* (M.fetched), or else the caller's own (M.mem).
TlbObj(M, h) == IF h \in DOMAIN M.fetched THEN M.fetched[h] ELSE Get(M.mem, h, NewObj)
SetTlbObj(M, h, obj) ==
    IF h \in DOMAIN M.fetched THEN [M EXCEPT !.fetched = Put(@, h, obj)]
    ELSE [M EXCEPT !.mem = Put(@, h, obj)]

setTruthValue(M, h, tv) == SetTlbObj(M, h, Obj(tv, TlbObj(M, h).vals))
setValue(M, h, key, pap) ==
    SetTlbObj(M, h, Obj(TlbObj(M, h).tv, Put(TlbObj(M, h).vals, key, pap)))

\* The tail of doGetNode and doGetLink: bind the new atom, take the TLB's
\* atom for the UUID and set its truth value.  The TLB's atom is null when
\* the atom is bound to another UUID.
bind_fetched(M, h, p) ==
    Let(IF h \in DOMAIN M.h2u THEN tlb_addAtom(M, h, p.uuid).M
        ELSE [tlb_addAtom(M, h, p.uuid).M EXCEPT !.fetched = Put(@, h, NewObj)],
        LAMBDA M1 :
    Let(tlb_getAtom(M1, p.uuid), LAMBDA bound :
        IF bound = NoAtom
        THEN [M |-> [M1 EXCEPT !.crashed = TRUE], found |-> FALSE, h |-> NoAtom]
        ELSE [M |-> [setTruthValue(M1, bound, p.tv) EXCEPT
                        !.log = @ \cup {LogEntry("LOAD", bound, p.uuid, TRUE)}],
              found |-> TRUE, h |-> bound]))

doGetNode(M, t, str) ==
    Let(setup_typemap(M), LAMBDA M1 :
    Let(getAtom(M1, {r \in M1.Atoms : r.type = storing(M1, t)
                                       /\ r.name = Col(str)}, 0),
        LAMBDA g :
            IF ~g.found THEN [M |-> g.M, found |-> FALSE, h |-> NoAtom]
            ELSE bind_fetched(g.M, createNode(t, str), g.p)))

RECURSIVE get_uuid(_, _)
RECURSIVE oset_to_string(_, _, _)
RECURSIVE doGetLink(_, _, _)
\* oset_to_string: the UUIDs of the outgoing set, each by get_uuid
oset_to_string(M, out, ids) ==
    IF out = << >> THEN [M |-> M, ids |-> ids]
    ELSE Let(get_uuid(M, Head(out)), LAMBDA r :
             oset_to_string(r.M, Tail(out), Append(ids, r.uuid)))

get_uuid(M, h) ==
    IF tlb_getUUID(M, h) # INVALID_UUID THEN [M |-> M, uuid |-> tlb_getUUID(M, h)]
    ELSE Let(IF isNode(h) THEN doGetNode(M, h.type, h.name)
             ELSE doGetLink(M, h.type, h.out),
             LAMBDA dbh :
                 IF dbh.found THEN [M |-> dbh.M, uuid |-> tlb_getUUID(dbh.M, h)]
                 ELSE tlb_addAtom(dbh.M, h, INVALID_UUID))

doGetLink(M, t, hseq) ==
    Let(oset_to_string(setup_typemap(M), hseq, << >>), LAMBDA o :
    Let(getAtom(o.M, {r \in o.M.Atoms :
                        /\ r.type = storing(o.M, t)
                        /\ r.outgoing =
                               Col(bigint_array_in(ids_to_string(o.ids)).elems)}, 1),
        LAMBDA g :
            IF ~g.found THEN [M |-> g.M, found |-> FALSE, h |-> NoAtom]
            ELSE bind_fetched(g.M, createLink(t, hseq), g.p)))

(***************************************************************************)
(* Storing atoms.                                                          *)
(***************************************************************************)
\* A row with the atom's unique key is in Atoms
KeyRows(M, h, ids) ==
    {r \in M.Atoms :
        /\ r.type = storing(M, h.type)
        /\ IF isNode(h) THEN r.name = Col(h.name) ELSE r.outgoing = Col(ids)}

local_id_cache_count_mut(M, uuid) == 0

\* maybe_create_id's first question: is the UUID known to be in storage?
local_id_cache_count(M, uuid) == IF uuid \in M.local_id_cache THEN 1 ELSE 0

\* do_store_single_atom from maybe_create_id's answer to the statement's
\* execution: counters, statement, exec, retry.  The atom's object is
\* M.mem[h].
store_single_statement(M, h, aheight, uuid, update) ==
    Let(IF aheight = 0
        THEN IF update THEN [M EXCEPT !.num_node_updates = @ + 1]
             ELSE [M EXCEPT !.num_node_inserts = @ + 1]
        ELSE IF update THEN [M EXCEPT !.num_link_updates = @ + 1]
             ELSE [M EXCEPT !.num_link_inserts = @ + 1],
        LAMBDA M1 :
    IF ~update /\ isNode(h) /\ 2700 < Len(h.name) + 12
    THEN Throw(M1, "Maxiumum Node name size is 2700")
    ELSE IF ~update /\ ~isNode(h) /\ isLink(h) /\ 330 < Len(h.out)
    THEN Throw([M1 EXCEPT !.max_height = Max(@, aheight)], "Maxiumum Link size is 330")
    ELSE
    Let(IF ~update /\ ~isNode(h)
        THEN [M1 EXCEPT !.max_height = Max(@, aheight)] ELSE M1,
        LAMBDA M2 :
    Let(IF ~update /\ ~isNode(h) /\ isLink(h)
        THEN oset_to_string(M2, h.out, << >>)
        ELSE [M |-> M2, ids |-> << >>],
        LAMBDA o :
    Let(Get(M.mem, h, NewObj).tv, LAMBDA tv :
    IF o.M.exc # "" \/ o.M.crashed THEN o.M
    ELSE IF ~KnownTVType(tv.type)
    THEN Throw(o.M, "store_single: Unknown truth value type")
    ELSE
    Let(AtomsRow(uuid, 1, storing(o.M, h.type),
                 IF isNode(h) THEN 0 ELSE aheight,
                 IF isNode(h) THEN Col(h.name) ELSE NullCol,
                 IF ~isNode(h) /\ isLink(h)
                 THEN Col(bigint_array_in(ids_to_string(o.ids)).elems)
                 ELSE NullCol,
                 TVCols(tv)),
        LAMBDA row :
    Let(LogEntry(IF update THEN "UPDATE" ELSE "INSERT", h, uuid,
                 IF update THEN \E r \in o.M.Atoms : r.uuid = uuid
                 ELSE KeyRows(o.M, h, o.ids) # {}),
        LAMBDA entry :
    Let(IF update THEN update_Atoms(o.M, uuid, TVCols(tv))
        ELSE IF insert_Atoms_ok(o.M, row) THEN insert_Atoms(o.M, row)
        ELSE insert_Atoms(store_atomtable_id(o.M), row),
        LAMBDA M4 : [M4 EXCEPT !.log = @ \cup {entry}])))))))

\* The end of do_store_single_atom: add_id_to_cache and _store_count
store_single_done(M, uuid) ==
    [add_id_to_cache(M, uuid) EXCEPT !.store_count = @ + 1]

\* do_store_single_atom run by one thread from start to end.  A UUID left
\* in id_create_cache makes maybe_create_id wait for id_create_mutex, which
\* the caller itself holds.
do_store_single_atom(M, h, aheight) ==
    Let(tlb_addAtom(setup_typemap(M), h, INVALID_UUID), LAMBDA a :
    Let(0 < local_id_cache_count(a.M, a.uuid), LAMBDA update :
        IF ~update /\ a.uuid \in a.M.id_create_cache
        THEN [a.M EXCEPT !.hung = TRUE]
        ELSE Let(store_single_statement(
                     IF update THEN a.M
                     ELSE [a.M EXCEPT !.id_create_cache = @ \cup {a.uuid}],
                     h, aheight, a.uuid, update),
                 LAMBDA M4 :
                     IF M4.exc # "" \/ M4.crashed THEN M4
                     ELSE store_single_done(M4, a.uuid))))

\* Nothing more of a handler runs once it threw, crashed or hung.
Stopped(M) == M.exc # "" \/ M.crashed \/ M.hung

\* store_atom_values: storeValuation for every key of the atom
RECURSIVE store_valuations(_, _, _)
store_valuations(M, atom, keys) ==
    IF keys = << >> \/ Stopped(M) THEN M
    ELSE store_valuations(
             storeValuation(M, Head(keys), atom, Get(M.mem, atom, NewObj).vals[Head(keys)]),
             atom, Tail(keys))

store_atom_values(M, atom) ==
    store_valuations(M, atom, SetToSeq(DOMAIN Get(M.mem, atom, NewObj).vals))

RECURSIVE do_store_atom(_, _)
RECURSIVE do_store_atoms(_, _, _)
\* the loop over the outgoing set: the state and the tallest height
do_store_atoms(M, out, lheight) ==
    IF out = << >> \/ Stopped(M) THEN [M |-> M, height |-> lheight]
    ELSE Let(do_store_atom(M, Head(out)), LAMBDA r :
             do_store_atoms(r.M, Tail(out), Max(lheight, r.height)))

\* For a node the loop is skipped and the height is 0.
do_store_atom(M, h) ==
    Let(IF isNode(h) THEN [M |-> M, height |-> -1]
        ELSE do_store_atoms(M, h.out, 0),
        LAMBDA c :
    Let(IF Stopped(c.M) THEN c.M
        ELSE do_store_single_atom(c.M, h, c.height + 1),
        LAMBDA M1 :
            [M |-> IF Stopped(M1) THEN M1 ELSE store_atom_values(M1, h),
             height |-> c.height + 1]))

\* storeAtom, synchronous
storeAtom(M, h) == do_store_atom(get_ids(M), h).M

RECURSIVE get_height(_)
RECURSIVE max_height_of(_, _)
max_height_of(out, maxd) ==
    IF out = << >> THEN maxd
    ELSE max_height_of(Tail(out), Max(maxd, get_height(Head(out))))
get_height_mut(atom) == IF ~isLink(atom) THEN 0 ELSE max_height_of(atom.out, 1)

get_height(atom) == IF ~isLink(atom) THEN 0 ELSE max_height_of(atom.out, 0) + 1

store_cb(M, h) ==
    Let(do_store_single_atom(get_ids(M), h, get_height(h)), LAMBDA M1 :
        IF Stopped(M1) THEN M1 ELSE store_atom_values(M1, h))

RECURSIVE store_cbs(_, _)
store_cbs(M, hs) ==
    IF hs = << >> \/ Stopped(M) THEN M ELSE store_cbs(store_cb(M, Head(hs)), Tail(hs))

\* store(table): the atoms of the table in the order the table visits them
store(M, order) ==
    LET M0 == [M EXCEPT !.max_height = 0, !.store_count = 0]
    IN store_cbs(store_atomtable_id(setup_typemap(get_ids(M0))), order)

(***************************************************************************)
(* Fetching atoms.                                                         *)
(***************************************************************************)
\* get_all_values_cb over the rows of SELECT * FROM Valuations WHERE atom
RECURSIVE get_all_values_rows(_, _, _)
get_all_values_rows(M, atom, rows) ==
    IF rows = {} \/ Stopped(M) THEN M
    ELSE Let(CHOOSE r \in rows : TRUE, LAMBDA r :
         Let(tlb_getAtom(M, r.key), LAMBDA hkey :
         Let(doUnpackValue(M, RowResponse(r)), LAMBDA pap :
             IF hkey = NoAtom THEN Throw(M, "Oh no mr billll")
             ELSE IF pap.st = "exception" THEN Throw(M, "Unexpected value type!")
             ELSE get_all_values_rows(
                      [setValue(M, atom, hkey, pap.v) EXCEPT
                          !.ub = @ \/ pap.st = "undefined"],
                      atom, rows \ {r}))))

get_atom_values(M, atom) ==
    get_all_values_rows(M, atom, {r \in M.Valuations : r.atom = tlb_getUUID(M, atom)})

\* What a fetch returns: the state, whether a handle came back, the handle
getNode(M, t, str) ==
    Let(doGetNode(M, t, str), LAMBDA g :
        IF g.found THEN [g EXCEPT !.M = get_atom_values(g.M, g.h)] ELSE g)

getLink(M, t, hs) ==
    Let(doGetLink(M, t, hs), LAMBDA g :
        IF g.found THEN [g EXCEPT !.M = get_atom_values(g.M, g.h)] ELSE g)

\* get_recursive_if_not_exists: the atom of a pseudo-atom; M.made notes
\* the truth value of each atom it creates.  A pseudo-atom that is null is
\* dereferenced all the same.
Made(M, h, tv) == [M EXCEPT !.made = Put(@, h, tv)]

RECURSIVE get_recursive_if_not_exists(_, _, _)
RECURSIVE resolve_oset(_, _, _)
resolve_oset(M, oset, resolved) ==
    IF oset = << >> \/ Stopped(M) THEN [M |-> M, out |-> resolved]
    ELSE Let(tlb_getAtom(M, Head(oset)), LAMBDA h :
             IF h # NoAtom THEN resolve_oset(M, Tail(oset), Append(resolved, h))
             ELSE Let(petAtom(M, Head(oset)), LAMBDA po :
                  Let(get_recursive_if_not_exists(po.M, po.found, po.p), LAMBDA ra :
                      resolve_oset(ra.M, Tail(oset), Append(resolved, ra.h)))))

get_recursive_if_not_exists(M, notnull, p) ==
    IF Stopped(M) THEN [M |-> M, h |-> NoAtom]
    ELSE IF ~notnull THEN [M |-> [M EXCEPT !.crashed = TRUE], h |-> NoAtom]
    ELSE IF isNodeType(p.type)
    THEN Let(createNode(p.type, p.name), LAMBDA node :
             [M |-> Made(tlb_addAtom(M, node, p.uuid).M, node, p.tv), h |-> node])
    ELSE Let(resolve_oset(M, p.oset, << >>), LAMBDA r :
         Let(createLink(p.type, r.out), LAMBDA link :
             IF Stopped(r.M) THEN [M |-> r.M, h |-> NoAtom]
             ELSE [M |-> Made(tlb_addAtom(r.M, link, p.uuid).M, link, p.tv),
                   h |-> link]))

\* fetch_incoming_set_cb over the rows the query found, in uuid order
RECURSIVE fetch_incoming_set_rows(_, _, _)
fetch_incoming_set_rows(M, rows, iset) ==
    IF rows = {} \/ Stopped(M) THEN [M |-> M, iset |-> iset]
    ELSE Let(CHOOSE r \in rows : \A q \in rows : r.uuid <= q.uuid, LAMBDA r :
         Let(makeAtom(M, r, -1), LAMBDA m :
         Let(get_recursive_if_not_exists(m.M, TRUE, m.p), LAMBDA a :
             fetch_incoming_set_rows(a.M, rows \ {r},
                 IF Stopped(a.M) THEN iset ELSE Append(iset, a.h)))))

InOutgoing_mut(r, uuid) ==
    r.outgoing # NullCol /\ Len(r.outgoing[1]) > 0 /\ r.outgoing[1][1] = uuid

\* outgoing @> ARRAY[uuid]
InOutgoing(r, uuid) ==
    r.outgoing # NullCol /\ \E i \in DOMAIN r.outgoing[1] : r.outgoing[1][i] = uuid

getIncomingSet(M, h) ==
    Let(tlb_addAtom(setup_typemap(M), h, INVALID_UUID), LAMBDA a :
        fetch_incoming_set_rows(a.M, {r \in a.M.Atoms : InOutgoing(r, a.uuid)},
                                << >>))

\* table->add(atom): the atom and, before it, the atoms beneath it.  An
\* atom the table has keeps the table's object.
RECURSIVE table_add(_, _, _)
RECURSIVE table_add_all(_, _, _)
table_add_all(F, out, made) ==
    IF out = << >> THEN F ELSE table_add_all(table_add(F, Head(out), made), Tail(out), made)
table_add(F, h, made) ==
    Let(table_add_all(F, h.out, made), LAMBDA F1 :
        IF h \in DOMAIN F1 THEN F1 ELSE Put(F1, h, Get(made, h, DefaultTV)))

\* load_all_atoms_cb over the rows of one height
RECURSIVE load_all_atoms_rows(_, _, _)
load_all_atoms_rows(M, rows, hei) ==
    IF rows = {} \/ Stopped(M) THEN M
    ELSE Let(CHOOSE r \in rows : \A q \in rows : r.uuid <= q.uuid, LAMBDA r :
         Let(makeAtom(M, r, hei), LAMBDA m :
         Let(get_recursive_if_not_exists(m.M, TRUE, m.p), LAMBDA a :
             load_all_atoms_rows(
                 IF Stopped(a.M) THEN a.M
                 ELSE [tlb_addAtom(a.M, a.h, INVALID_UUID).M EXCEPT
                          !.F = table_add(@, a.h, a.M.made),
                          !.log = @ \cup {LogEntry("LOAD", a.h,
                                                   tlb_getUUID(a.M, a.h), TRUE)}],
                 rows \ {r}, hei))))

STEP == 12003

RECURSIVE load_heights(_, _, _)
load_heights(M, hei, max_nrec) ==
    IF hei > M.max_height \/ Stopped(M) THEN M
    ELSE load_heights(
             load_all_atoms_rows(M, {r \in M.Atoms : r.height = hei
                                        /\ InChunks(r.uuid, max_nrec, STEP)}, hei),
             hei + 1, max_nrec)

\* load(table): every row of Atoms, by height, into the table M.F
load(M) ==
    LET max_nrec == getMaxObservedUUID(M)
        M1 == [tlb_reserve_upto(M, max_nrec) EXCEPT
                  !.load_count = 0, !.max_height = getMaxObservedHeight(M)]
    IN load_heights(setup_typemap(M1), 0, max_nrec)

(***************************************************************************)
(* The state: the tables of the database, the fields of SQLAtomStorage,    *)
(* the TLB, the atoms in memory, and what is remembered of the calls.      *)
(***************************************************************************)
VARIABLES
    Atoms, Valuations, Values, TypeCodes, Spaces, h2u, brk, local_id_cache,
    id_create_cache, local_id_cache_is_inited, table_id_cache, table_uuid,
    type_map_was_loaded, loading_typemap, storing_typemap, db_typename,
    next_valid, max_height, store_count, load_count, num_node_inserts,
    num_node_updates, num_link_inserts, num_link_updates, mem, fetched, F,
    made,
    log, exc, ub, crashed, hung, stale, trace, pc, lcl, id_create_mutex,
    conn, conn_pool, store_queue, busy_writers

storevars ==
    << Atoms, Valuations, Values, TypeCodes, Spaces, h2u, brk, local_id_cache,
       id_create_cache, local_id_cache_is_inited, table_id_cache, table_uuid,
       type_map_was_loaded, loading_typemap, storing_typemap, db_typename,
       next_valid, max_height, store_count, load_count, num_node_inserts,
       num_node_updates, num_link_inserts, num_link_updates, mem, fetched, F,
    made,
       log, exc, ub, crashed, hung, stale >>

\* conn_pool: the free connections; _write_queue: its queue and its count
\* of busy writers
poolvars == << conn_pool, store_queue, busy_writers >>

vars == << storevars, trace, pc, lcl, id_create_mutex, conn, poolvars >>

\* The state as one record, for the operators above
Cur ==
    [Atoms |-> Atoms, Valuations |-> Valuations, Values |-> Values,
     TypeCodes |-> TypeCodes, Spaces |-> Spaces, h2u |-> h2u, brk |-> brk,
     local_id_cache |-> local_id_cache, id_create_cache |-> id_create_cache,
     local_id_cache_is_inited |-> local_id_cache_is_inited,
     table_id_cache |-> table_id_cache, table_uuid |-> table_uuid,
     type_map_was_loaded |-> type_map_was_loaded,
     loading_typemap |-> loading_typemap,
     storing_typemap |-> storing_typemap, db_typename |-> db_typename,
     next_valid |-> next_valid, max_height |-> max_height,
     store_count |-> store_count, load_count |-> load_count,
     num_node_inserts |-> num_node_inserts,
     num_node_updates |-> num_node_updates,
     num_link_inserts |-> num_link_inserts,
     num_link_updates |-> num_link_updates, mem |-> mem, fetched |-> fetched, F |-> F,
     made |-> made, log |-> log, exc |-> exc, ub |-> ub,
     crashed |-> crashed, hung |-> hung, stale |-> stale]

Becomes(M) ==
    /\ Atoms' = M.Atoms
    /\ Valuations' = M.Valuations
    /\ Values' = M.Values
    /\ TypeCodes' = M.TypeCodes
    /\ Spaces' = M.Spaces
    /\ h2u' = M.h2u
    /\ brk' = M.brk
    /\ local_id_cache' = M.local_id_cache
    /\ id_create_cache' = M.id_create_cache
    /\ local_id_cache_is_inited' = M.local_id_cache_is_inited
    /\ table_id_cache' = M.table_id_cache
    /\ table_uuid' = M.table_uuid
    /\ type_map_was_loaded' = M.type_map_was_loaded
    /\ loading_typemap' = M.loading_typemap
    /\ storing_typemap' = M.storing_typemap
    /\ db_typename' = M.db_typename
    /\ next_valid' = M.next_valid
    /\ max_height' = M.max_height
    /\ store_count' = M.store_count
    /\ load_count' = M.load_count
    /\ num_node_inserts' = M.num_node_inserts
    /\ num_node_updates' = M.num_node_updates
    /\ num_link_inserts' = M.num_link_inserts
    /\ num_link_updates' = M.num_link_updates
    /\ mem' = M.mem
    /\ fetched' = M.fetched
    /\ F' = M.F
    /\ made' = M.made
    /\ log' = M.log
    /\ exc' = M.exc
    /\ ub' = M.ub
    /\ crashed' = M.crashed
    /\ hung' = M.hung
    /\ stale' = M.stale

StateIs(M) ==
    /\ Atoms = M.Atoms
    /\ Valuations = M.Valuations
    /\ Values = M.Values
    /\ TypeCodes = M.TypeCodes
    /\ Spaces = M.Spaces
    /\ h2u = M.h2u
    /\ brk = M.brk
    /\ local_id_cache = M.local_id_cache
    /\ id_create_cache = M.id_create_cache
    /\ local_id_cache_is_inited = M.local_id_cache_is_inited
    /\ table_id_cache = M.table_id_cache
    /\ table_uuid = M.table_uuid
    /\ type_map_was_loaded = M.type_map_was_loaded
    /\ loading_typemap = M.loading_typemap
    /\ storing_typemap = M.storing_typemap
    /\ db_typename = M.db_typename
    /\ next_valid = M.next_valid
    /\ max_height = M.max_height
    /\ store_count = M.store_count
    /\ load_count = M.load_count
    /\ num_node_inserts = M.num_node_inserts
    /\ num_node_updates = M.num_node_updates
    /\ num_link_inserts = M.num_link_inserts
    /\ num_link_updates = M.num_link_updates
    /\ mem = M.mem
    /\ fetched = M.fetched
    /\ F = M.F
    /\ made = M.made
    /\ log = M.log
    /\ exc = M.exc
    /\ ub = M.ub
    /\ crashed = M.crashed
    /\ hung = M.hung
    /\ stale = M.stale

\* The database create_tables leaves, and a store just constructed on a
\* database: init() reserves the UUIDs in use and reads the largest VUID.
EmptyDB ==
    [Atoms |-> {}, Valuations |-> {}, Values |-> {}, TypeCodes |-> {}, Spaces |-> {0, 1}]

StaleNothing == [vtype |-> NOTYPE, fltval |-> << >>, strval |-> << >>, lnkval |-> << >>]

Constructed(db, tuuid) ==
    LET M0 == [Atoms |-> db.Atoms, Valuations |-> db.Valuations, Values |-> db.Values,
               TypeCodes |-> db.TypeCodes, Spaces |-> db.Spaces,
               h2u |-> [h \in {} |-> 0], brk |-> 1,
               local_id_cache |-> {}, id_create_cache |-> {},
               local_id_cache_is_inited |-> FALSE, table_id_cache |-> {},
               table_uuid |-> tuuid,
               type_map_was_loaded |-> FALSE, loading_typemap |-> EmptyMap,
               storing_typemap |-> EmptyMap, db_typename |-> EmptyNames,
               next_valid |-> 1, max_height |-> 0, store_count |-> 0, load_count |-> 0,
               num_node_inserts |-> 0, num_node_updates |-> 0,
               num_link_inserts |-> 0, num_link_updates |-> 0,
               mem |-> [h \in {} |-> NewObj],
               fetched |-> [h \in {} |-> NewObj], F |-> [h \in {} |-> DefaultTV],
               made |-> [h \in {} |-> DefaultTV], log |-> {},
               exc |-> "", ub |-> FALSE, crashed |-> FALSE, hung |-> FALSE,
               stale |-> StaleNothing]
    IN [tlb_reserve_upto(M0, getMaxObservedUUID(M0)) EXCEPT
           !.next_valid = getMaxObservedVUID(M0) + 1]

\* A call starts with no exception pending
Begin(M) == [M EXCEPT !.exc = "", !.made = [h \in {} |-> DefaultTV]]
Alive == ~crashed /\ ~hung

\* init: one connection for each core the machine reports (8 when it
\* reports none) and one for each write-back queue
HardwareConcurrency == 1
NUM_WB_QUEUES == 8
init_pool_size_mut(hc) == hc + NUM_WB_QUEUES

\* _initial_conn_pool_size for a machine that reports hc cores
init_pool_size(hc) == (IF hc = 0 THEN 8 ELSE hc) + NUM_WB_QUEUES

initial_conn_pool_size == init_pool_size(HardwareConcurrency)

\* Every connection is in the pool and nothing is queued
PoolAtRest ==
    /\ conn_pool = initial_conn_pool_size
    /\ store_queue = << >>
    /\ busy_writers = 0

NoThreads ==
    /\ pc = [t \in {} |-> ""]
    /\ lcl = [t \in {} |-> 0]
    /\ id_create_mutex = 0
    /\ conn = [t \in {} |-> 0]
    /\ PoolAtRest

(***************************************************************************)
(* SpecVal: one thread stores, fetches and deletes Values and the          *)
(* Valuation of one (key, atom) pair whose atoms are in storage.           *)
(***************************************************************************)
MaxStrLen == 1
MaxVecLen == 2
MaxValOps == 3
TableUUIDs == {1, 2}

Alphabet == {"a", ",", "\"", "{"}
SeqsUpTo(S, n) == UNION {[1..m -> S] : m \in 0..n}
Strings == SeqsUpTo(Alphabet, MaxStrLen)
FloatElems == {Dbl(5, -1), Dbl(1234567, -7)}

StringValues == {createStringValue(v) : v \in SeqsUpTo(Strings, MaxVecLen)}
FloatValues == {createFloatValue(v) : v \in SeqsUpTo(FloatElems, MaxVecLen)}
\* LinkVectors, to depth 2, with leaves of each kind
LinkMembers == {createFloatValue(<< Dbl(5, -1) >>), createStringValue(<< << "a" >> >>),
                createStringValue(<< << "{" >> >>)}
LinkValues1 == {createLinkValue(v) : v \in SeqsUpTo(LinkMembers, MaxVecLen)}
LinkValues2 == {createLinkValue(<< l >> \o v) :
                    l \in {l1 \in LinkValues1 : Len(l1.lnk) < MaxVecLen},
                    v \in SeqsUpTo(LinkMembers, MaxVecLen - 1)}
AllValues == StringValues \cup FloatValues \cup LinkValues1 \cup LinkValues2

\* The values one pair is given: some of each kind
ValuationValues ==
    {createFloatValue(<< Dbl(5, -1) >>), createFloatValue(<< Dbl(1, -7) >>),
     createStringValue(<< << "a" >>, << "a" >> >>), createStringValue(<< << "," >> >>),
     createStringValue(<< << "{" >> >>), createStringValue(<< << >> >>)}
    \cup {l \in LinkValues1 : Len(l.lnk) <= 1}
    \cup {l \in LinkValues2 : Len(l.lnk) = 1 /\ Len(l.lnk[1].lnk) = 1}

KeyAtom == createNode(CONCEPT_NODE, "k")
TheAtom == createNode(CONCEPT_NODE, "a")

InitVal ==
    /\ NoThreads
    /\ trace = << >>
    /\ StateIs(storeAtom(storeAtom(Constructed(EmptyDB, 1), KeyAtom), TheAtom))

CanCall(max) == Alive /\ Len(trace) < max
Called(e) ==
    /\ trace' = Append(trace, e)
    /\ UNCHANGED << pc, lcl, id_create_mutex, conn, poolvars >>

\* What an uninitialised Response can hold: nothing, or what a Response
\* of an earlier query was left with.
StaleResponses == {StaleNothing} \cup {RowResponse(r) : r \in Values}

ValStoreValuation ==
    /\ CanCall(MaxValOps)
    /\ \E v \in ValuationValues, st \in StaleResponses :
        /\ Becomes([storeValuation([Begin(Cur) EXCEPT !.stale = st],
                                   KeyAtom, TheAtom, v)
                        EXCEPT !.stale = StaleNothing])
        /\ Called([op |-> "storeValuation", v |-> v])

PairRows(M) ==
    {r \in M.Valuations :
        r.key = tlb_getUUID(M, KeyAtom) /\ r.atom = tlb_getUUID(M, TheAtom)}

ValGetValuation ==
    /\ CanCall(MaxValOps)
    /\ Becomes(Begin(Cur))
    /\ Called([op |-> "getValuation", ret |-> getValuation(Cur, KeyAtom, TheAtom),
               rows |-> Cardinality(PairRows(Cur))])

ValStoreValue ==
    /\ CanCall(MaxValOps - 1)
    /\ \E v \in AllValues :
        \E r \in {storeValue(Begin(Cur), v)} :
            /\ Becomes(r.M)
            /\ Called([op |-> "storeValue", v |-> v, vuid |-> r.vuid])

\* The VUIDs storeValue has returned
Returned == {trace[i].vuid : i \in {j \in DOMAIN trace : trace[j].op = "storeValue"}}

ValGetValue ==
    /\ CanCall(MaxValOps)
    /\ \E vuid \in Returned :
        /\ Becomes(Begin(Cur))
        /\ Called([op |-> "getValue", vuid |-> vuid, ret |-> getValue(Cur, vuid)])

ValDeleteValue ==
    /\ CanCall(MaxValOps)
    /\ \E vuid \in Returned, st \in StaleResponses :
        /\ Becomes([deleteValue([Begin(Cur) EXCEPT !.stale = st], vuid)
                        EXCEPT !.stale = StaleNothing])
        /\ Called([op |-> "deleteValue", vuid |-> vuid,
                   before |-> [Atoms |-> Atoms, Valuations |-> Valuations,
                               Values |-> Values]])

NextVal ==
    \/ ValStoreValuation
    \/ ValGetValuation
    \/ ValStoreValue
    \/ ValGetValue
    \/ ValDeleteValue

SpecVal == InitVal /\ [][NextVal]_vars

(***************************************************************************)
(* Properties of Values and Valuations (SpecVal).                          *)
(***************************************************************************)
IsOp(i, op) == i \in DOMAIN trace /\ trace[i].op = op

\* C6: after storeValuation(k, a, v1) and then storeValuation(k, a, v2),
\* getValuation(k, a) returns v2 and Valuations holds exactly one row for
\* the pair.
C6_SecondValuationWins ==
    \A i \in DOMAIN trace :
        IsOp(i, "storeValuation") /\ IsOp(i + 1, "storeValuation") /\ IsOp(i + 2, "getValuation")
        => /\ trace[i + 2].ret = Ret("ok", trace[i + 1].v)
           /\ trace[i + 2].rows = 1

\* C7: for every Value L of the three kinds, with strings over an
\* alphabet that has the comma, the double quote and the brace,
\* getValue(storeValue(L)) equals L.
C7_ValueRoundTrip ==
    \A i \in DOMAIN trace :
        IsOp(i, "storeValue") /\ IsOp(i + 1, "getValue") /\ trace[i + 1].vuid = trace[i].vuid
        => trace[i + 1].ret = Ret("ok", trace[i].v)

\* The VUIDs reachable from vuid through linkvalue references in rows
RECURSIVE Reachable(_, _, _)
Reachable(rows, todo, seen) ==
    IF todo = {} THEN seen
    ELSE LET v == CHOOSE v \in todo : TRUE
             kids == UNION {{r.linkvalue[1][j] : j \in DOMAIN r.linkvalue[1]} :
                              r \in {q \in rows : q.vuid = v /\ q.linkvalue # NullCol}}
         IN Reachable(rows, (todo \cup kids) \ (seen \cup {v}), seen \cup {v})

\* C8: deleteValue(v) removes from Values exactly the rows whose VUID is v
\* or is reachable from v through linkvalue references, and leaves every
\* other row of Values and all of Valuations and Atoms as they were.
C8_DeleteValueFrame ==
    IsOp(Len(trace), "deleteValue")
    => LET e == trace[Len(trace)]
           gone == Reachable(e.before.Values, {e.vuid}, {})
       IN /\ Values = {r \in e.before.Values : r.vuid \notin gone}
          /\ Valuations = e.before.Valuations
          /\ Atoms = e.before.Atoms

(***************************************************************************)
(* SpecAtom: one thread stores atoms, fetches them, asks for incoming      *)
(* sets; atoms leave the TLB (extract_callback); the store is closed and   *)
(* a new one opened on the same database.                                  *)
(***************************************************************************)
MaxAtomOps == 4
MaxRestarts == 1

TheLink == createLink(LIST_LINK, << TheAtom >>)
AtomUniverse == {KeyAtom, TheAtom, TheLink}

TVChoices ==
    {SimpleTV(Dbl(5, -1), Dbl(5, -1)),
     SimpleTV(Dbl(123456789, -9), Dbl(5, -1)),
     IndefiniteTV(Dbl(2, -1), Dbl(8, -1), Dbl(9, -1))}
ValChoices == {NoVals, Put(NoVals, KeyAtom, createFloatValue(<< Dbl(5, -1) >>))}

\* A store constructed on db, with the caller's atoms in memory
Opened(db, tuuid, atoms) == [Constructed(db, tuuid) EXCEPT !.mem = atoms]

InitAtom ==
    /\ NoThreads
    /\ trace = << >>
    /\ \E tuuid \in TableUUIDs, focus \in {TheAtom, TheLink},
          tv \in TVChoices, vals \in ValChoices :
          StateIs(Opened(EmptyDB, tuuid,
                         [h \in AtomUniverse |->
                             IF h = focus THEN Obj(tv, vals) ELSE NewObj]))

AtomStore ==
    /\ CanCall(MaxAtomOps)
    /\ \E h \in AtomUniverse :
        \E M \in {storeAtom(Begin(Cur), h)} :
            /\ Becomes(M)
            /\ Called([op |-> "storeAtom", h |-> h, obj |-> mem[h], exc |-> M.exc])

\* extract_callback
AtomRemove ==
    /\ CanCall(MaxAtomOps)
    /\ \E h \in DOMAIN h2u :
        /\ Becomes(tlb_removeAtom(Begin(Cur), h))
        /\ Called([op |-> "removeAtom", h |-> h])

AtomGet ==
    /\ CanCall(MaxAtomOps)
    /\ \E h \in AtomUniverse :
        \E g \in {IF isNode(h) THEN getNode(Begin(Cur), h.type, h.name)
                   ELSE getLink(Begin(Cur), h.type, h.out)} :
            /\ Becomes(g.M)
            /\ Called([op |-> "getAtom", h |-> h, found |-> g.found, rh |-> g.h,
                       uuid |-> tlb_getUUID(g.M, g.h),
                       obj |-> TlbObj(g.M, g.h), exc |-> g.M.exc])

AtomIncoming ==
    /\ CanCall(MaxAtomOps)
    /\ \E h \in {a \in AtomUniverse : isNode(a)} :
        \E g \in {getIncomingSet(Begin(Cur), h)} :
            /\ Becomes(g.M)
            /\ Called([op |-> "getIncomingSet", h |-> h, iset |-> g.iset])

Restarts == Cardinality({i \in DOMAIN trace : trace[i].op = "restart"})

\* The store is destroyed and a new one constructed on the same database
AtomRestart ==
    /\ CanCall(MaxAtomOps)
    /\ Restarts < MaxRestarts
    /\ Becomes([Opened(Cur, table_uuid, mem) EXCEPT !.log = log])
    /\ Called([op |-> "restart"])

NextAtom ==
    \/ AtomStore
    \/ AtomRemove
    \/ AtomGet
    \/ AtomIncoming
    \/ AtomRestart

SpecAtom == InitAtom /\ [][NextAtom]_vars

(***************************************************************************)
(* Properties of stored and fetched atoms (SpecAtom).                      *)
(***************************************************************************)
\* C2: the store never issues an INSERT for an atom whose unique key,
\* (type, name) or (type, outgoing), already has a row in Atoms, and Atoms
\* never holds two rows with the same key.
C2_NoInsertForExistingKey ==
    /\ \A e \in log : e.op = "INSERT" => ~e.had_row
    /\ \A r, q \in Atoms :
          (/\ r.type = q.type
           /\ \/ r.name # NullCol /\ r.name = q.name
              \/ r.outgoing # NullCol /\ r.outgoing = q.outgoing) => r = q

\* C4: on a new store, storeAtom(e), then e's removal from the TLB, then
\* getNode or getLink by e's type and name or outgoing set returns an atom
\* equal to e whose truth value and values are those e was stored with.
C4_StoreEvictFetch ==
    (/\ IsOp(1, "storeAtom") /\ IsOp(2, "removeAtom") /\ IsOp(3, "getAtom")
     /\ trace[2].h = trace[1].h /\ trace[3].h = trace[1].h)
    => /\ trace[3].found
       /\ trace[3].rh = trace[1].h
       /\ trace[3].obj = trace[1].obj

\* C5: with the store never reopened, the statements written for an atom
\* and the handles returned for it all carry one UUID.
C5_OneUUIDPerAtom ==
    Restarts = 0 => \A x, y \in log : x.h = y.h => x.uuid = y.uuid

(***************************************************************************)
(* SpecInc: one thread stores links over two nodes and asks for the        *)
(* incoming sets of the nodes; nothing leaves the TLB.                     *)
(***************************************************************************)
MaxIncOps == 2
MaxArity == 2

IncNodes == {TheAtom, KeyAtom}
FlatLinks == {createLink(LIST_LINK, out) : out \in SeqsUpTo(IncNodes, MaxArity) \ {<< >>}}
IncLinks ==
    FlatLinks \cup {createLink(LIST_LINK, << l >>) : l \in {f \in FlatLinks : Len(f.out) = 1}}

InitInc ==
    /\ NoThreads
    /\ trace = << >>
    /\ \E tuuid \in TableUUIDs :
          StateIs(Opened(EmptyDB, tuuid, [h \in IncNodes \cup IncLinks |-> NewObj]))

IncStore ==
    /\ CanCall(MaxIncOps)
    /\ \E h \in IncLinks :
        \E M \in {storeAtom(Begin(Cur), h)} :
            /\ Becomes(M)
            /\ Called([op |-> "storeAtom", h |-> h, obj |-> mem[h], exc |-> M.exc])

IncGetIncomingSet ==
    /\ CanCall(MaxIncOps + 1)
    /\ \E h \in IncNodes :
        \E g \in {getIncomingSet(Begin(Cur), h)} :
            /\ Becomes(g.M)
            /\ Called([op |-> "getIncomingSet", h |-> h, iset |-> g.iset])

NextInc ==
    \/ IncStore
    \/ IncGetIncomingSet

SpecInc == InitInc /\ [][NextInc]_vars

\* An atom and the atoms beneath it
RECURSIVE Subatoms(_)
Subatoms(h) == {h} \cup UNION {Subatoms(h.out[i]) : i \in DOMAIN h.out}

\* The links with n in their outgoing set that the calls before the i-th
\* have stored
StoredOver(n, i) ==
    {l \in UNION {Subatoms(trace[j].h) :
                    j \in {j \in 1..(i - 1) : trace[j].op = "storeAtom"}} :
        \E c \in DOMAIN l.out : l.out[c] = n}

\* C9: getIncomingSet(n) returns the links with n in their outgoing set
\* that have been stored: every one of them once, and nothing else.
C9_IncomingSetIsStoredLinks ==
    \A i \in DOMAIN trace :
        IsOp(i, "getIncomingSet")
        => /\ {trace[i].iset[j] : j \in DOMAIN trace[i].iset} = StoredOver(trace[i].h, i)
           /\ Len(trace[i].iset) = Cardinality(StoredOver(trace[i].h, i))

C9_SeveralLinksReturned ==
    \E i \in DOMAIN trace :
        /\ IsOp(i, "getIncomingSet")
        /\ Len(trace[i].iset) >= 2
        /\ \E j \in DOMAIN trace[i].iset : trace[i].iset[j].out[1] # trace[i].h

(***************************************************************************)
(* SpecBulk: a table of atoms is stored into an empty database by          *)
(* store(), in any order of its atoms, and loaded into an empty table by   *)
(* load(), by the same store or by one opened afterwards.                  *)
(***************************************************************************)
MaxTable == 3

EmptyLink == createLink(LIST_LINK, << >>)
BulkUniverse ==
    {TheAtom, KeyAtom, TheLink, EmptyLink, createLink(LIST_LINK, << TheLink >>)}

\* The tables: an atom's outgoing set is in the table with it
Tables ==
    {T \in SUBSET BulkUniverse :
        /\ T # {}
        /\ Cardinality(T) <= MaxTable
        /\ \A h \in T : Subatoms(h) \subseteq T}

Perms(S) ==
    {p \in [1..Cardinality(S) -> S] : \A x, y \in DOMAIN p : p[x] = p[y] => x = y}

InitBulk ==
    /\ NoThreads
    /\ trace = << >>
    /\ \E T \in Tables : \E focus \in T, tv \in TVChoices :
          StateIs(Opened(EmptyDB, 1,
                         [h \in T |-> IF h = focus THEN Obj(tv, NoVals) ELSE NewObj]))

BulkStore ==
    /\ Alive
    /\ trace = << >>
    /\ \E order \in Perms(DOMAIN mem) :
        \E M \in {store(Begin(Cur), order)} :
            /\ Becomes(M)
            /\ Called([op |-> "store", order |-> order, exc |-> M.exc,
                       table |-> [h \in DOMAIN mem |-> mem[h].tv]])

BulkReopen ==
    /\ Alive
    /\ Len(trace) = 1
    /\ Becomes([Opened(Cur, table_uuid, mem) EXCEPT !.log = log])
    /\ Called([op |-> "restart"])

BulkLoad ==
    /\ Alive
    /\ Len(trace) \in {1, 2}
    /\ ~IsOp(Len(trace), "load")
    /\ \E M \in {load(Begin(Cur))} :
        /\ Becomes(M)
        /\ Called([op |-> "load", exc |-> M.exc])

NextBulk ==
    \/ BulkStore
    \/ BulkReopen
    \/ BulkLoad

SpecBulk == InitBulk /\ [][NextBulk]_vars

\* C10: after store(T) into an empty database and load(F) into an empty
\* table F, F holds the atoms of T with their truth values, whatever the
\* order in which store visited T.
C10_LoadRestoresTable ==
    IsOp(Len(trace), "load") => ~crashed /\ exc = "" /\ F = trace[1].table

(***************************************************************************)
(* SpecStore: NThreads threads call storeAtom(e), synchronous, on the same *)
(* atom e at once.  A thread's steps are the calls of do_store_atom, each  *)
(* under the locks it takes: get_ids; setup_typemap and the TLB's addAtom; *)
(* maybe_create_id; the statement; add_id_to_cache; the return, which      *)
(* releases id_create_mutex if the thread holds it; store_atom_values.     *)
(***************************************************************************)
NThreads == 2
Threads == 1..NThreads

\* The calls of do_store_single_atom that do_store_atom(h) makes, in order
RECURSIVE PostOrder(_)
RECURSIVE PostOrderAll(_)
PostOrderAll(out) ==
    IF out = << >> THEN << >> ELSE PostOrder(Head(out)) \o PostOrderAll(Tail(out))
PostOrder(h) == PostOrderAll(h.out) \o << [h |-> h, aheight |-> get_height(h)] >>

InitStore ==
    /\ trace = << >>
    /\ conn = [t \in {} |-> 0]
    /\ PoolAtRest
    /\ id_create_mutex = 0
    /\ \E e \in {TheAtom, TheLink}, tv \in TVChoices, prior \in BOOLEAN :
          /\ pc = [t \in Threads |-> "get_ids"]
          /\ lcl = [t \in Threads |->
                       [e |-> e, todo |-> PostOrder(e), uuid |-> INVALID_UUID,
                        update |-> FALSE, paths |-> << >>, exc |-> ""]]
          /\ \E M \in {Opened(EmptyDB, 1,
                                [h \in AtomUniverse |->
                                    IF h = e THEN Obj(tv, NoVals) ELSE NewObj])} :
                StateIs(IF prior THEN storeAtom(M, KeyAtom) ELSE M)

\* Thread t moves to pc value to, with its locals l
Goes(t, to, l) ==
    /\ pc' = [pc EXCEPT ![t] = to]
    /\ lcl' = [lcl EXCEPT ![t] = l]
    /\ UNCHANGED << trace, conn, poolvars >>

StoreGetIds(t) ==
    /\ pc[t] = "get_ids"
    /\ Becomes(get_ids(Begin(Cur)))
    /\ Goes(t, "addAtom", lcl[t])
    /\ UNCHANGED id_create_mutex

StoreAddAtom(t) ==
    /\ pc[t] = "addAtom"
    /\ \E a \in {tlb_addAtom(setup_typemap(Begin(Cur)), Head(lcl[t].todo).h,
                              INVALID_UUID)} :
        /\ Becomes(a.M)
        /\ Goes(t, "maybe_create_id", [lcl[t] EXCEPT !.uuid = a.uuid])
    /\ UNCHANGED id_create_mutex

StoreMaybeCreateId_mut(t) ==
    /\ pc[t] = "maybe_create_id"
    /\ IF 0 < local_id_cache_count(Cur, lcl[t].uuid) \/ lcl[t].uuid \in id_create_cache
       THEN /\ Becomes(Begin(Cur))
            /\ Goes(t, "statement", [lcl[t] EXCEPT !.update = TRUE])
            /\ UNCHANGED id_create_mutex
       ELSE /\ Becomes([Begin(Cur) EXCEPT !.id_create_cache = @ \cup {lcl[t].uuid}])
            /\ Goes(t, "statement", [lcl[t] EXCEPT !.update = FALSE])
            /\ id_create_mutex' = t

\* maybe_create_id: it waits for id_create_mutex; it returns the lock
\* held when the UUID is in neither cache.  When the UUID is in
\* id_create_cache it locks id_create_mutex a second time, with create_lock
\* still held: the thread waits for itself, or the lock throws
\* std::system_error (resource_deadlock_would_occur) where the library
\* detects it.
StoreMaybeCreateId(t) ==
    /\ pc[t] = "maybe_create_id"
    /\ id_create_mutex = 0
    /\ IF 0 < local_id_cache_count(Cur, lcl[t].uuid)
       THEN /\ Becomes(Begin(Cur))
            /\ Goes(t, "statement", [lcl[t] EXCEPT !.update = TRUE])
            /\ UNCHANGED id_create_mutex
       ELSE IF lcl[t].uuid \in id_create_cache
       THEN \/ /\ Becomes([Begin(Cur) EXCEPT !.hung = TRUE])
               /\ Goes(t, "hung", lcl[t])
               /\ id_create_mutex' = t
            \/ /\ Becomes(Throw(Begin(Cur), "std::system_error"))
               /\ Goes(t, "done", [lcl[t] EXCEPT !.exc = "std::system_error"])
               /\ UNCHANGED id_create_mutex
       ELSE /\ Becomes([Begin(Cur) EXCEPT !.id_create_cache = @ \cup {lcl[t].uuid}])
            /\ Goes(t, "statement", [lcl[t] EXCEPT !.update = FALSE])
            /\ id_create_mutex' = t

\* The statement; an exception ends the call and releases the lock
StoreStatement(t) ==
    /\ pc[t] = "statement"
    /\ \E M \in {store_single_statement(Begin(Cur), Head(lcl[t].todo).h,
                                         Head(lcl[t].todo).aheight,
                                         lcl[t].uuid, lcl[t].update)} :
        /\ Becomes(M)
        /\ Goes(t, IF M.exc # "" THEN "done" ELSE "add_id",
                [lcl[t] EXCEPT !.exc = M.exc,
                               !.paths = Append(@,
                                   [h |-> Head(lcl[t].todo).h,
                                    op |-> IF lcl[t].update THEN "UPDATE"
                                           ELSE "INSERT"])])
        /\ id_create_mutex' =
              IF M.exc # "" /\ id_create_mutex = t THEN 0 ELSE id_create_mutex

StoreAddId(t) ==
    /\ pc[t] = "add_id"
    /\ Becomes(store_single_done(Begin(Cur), lcl[t].uuid))
    /\ Goes(t, "return", lcl[t])
    /\ UNCHANGED id_create_mutex

StoreReturn(t) ==
    /\ pc[t] = "return"
    /\ Becomes(Begin(Cur))
    /\ Goes(t, "values", lcl[t])
    /\ id_create_mutex' = IF id_create_mutex = t THEN 0 ELSE id_create_mutex

StoreValues(t) ==
    /\ pc[t] = "values"
    /\ \E M \in {store_atom_values(Begin(Cur), Head(lcl[t].todo).h)} :
        /\ Becomes(M)
        /\ Goes(t, IF M.exc # "" \/ Tail(lcl[t].todo) = << >> THEN "done"
                   ELSE "addAtom",
                [lcl[t] EXCEPT !.todo = Tail(@), !.exc = M.exc])
    /\ UNCHANGED id_create_mutex

NextStore ==
    \E t \in Threads :
        \/ StoreGetIds(t)
        \/ StoreAddAtom(t)
        \/ StoreMaybeCreateId(t)
        \/ StoreStatement(t)
        \/ StoreAddId(t)
        \/ StoreReturn(t)
        \/ StoreValues(t)

SpecStore == InitStore /\ [][NextStore]_vars

\* The threads whose call took path op for atom h
TookPath(h, op) ==
    {t \in Threads : \E i \in DOMAIN lcl[t].paths : lcl[t].paths[i] = [h |-> h, op |-> op]}

AllReturned == \A t \in Threads : pc[t] = "done"

\* The inserts counted before the threads started
PriorInserts == IF KeyAtom \in DOMAIN h2u THEN 1 ELSE 0

\* C1: when NThreads threads have called storeAtom(e) at once and all have
\* returned, one call took the INSERT path for e and the others the
\* UPDATE path, Atoms holds one row for e, and the insert and update
\* counters of e's kind have counted 1 and NThreads - 1.
C1_OneInsertOthersUpdate ==
    AllReturned =>
        \A t \in Threads : \A h \in Subatoms(lcl[t].e) :
            /\ Cardinality(TookPath(h, "INSERT")) = 1
            /\ Cardinality(TookPath(h, "UPDATE")) = NThreads - 1
            /\ Cardinality({r \in Atoms : r.uuid = tlb_getUUID(Cur, h)}) = 1
            /\ Cardinality(Atoms) = PriorInserts + Cardinality(Subatoms(lcl[t].e))
            /\ IF isNode(h)
               THEN /\ num_node_inserts = PriorInserts + 1
                    /\ num_node_updates = NThreads - 1
               ELSE /\ num_link_inserts = 1
                    /\ num_link_updates = NThreads - 1

C1_AllCallsReturned ==
    /\ AllReturned
    /\ NThreads >= 2
    /\ \A t \in Threads : lcl[t].e = TheLink /\ lcl[t].exc = ""
    /\ TookPath(TheLink, "UPDATE") # {}

(***************************************************************************)
(* SpecTxn: one thread runs storeValuation(k, a, v2) over the valuation v1 *)
(* of the pair while another calls getValuation(k, a).  The writer's steps *)
(* are its statements.  BEGIN, the INSERT into Valuations and COMMIT go to *)
(* the connection of storeValuation's Response; deleteValuation,           *)
(* deleteValue and storeValue each take a connection of their own, whose   *)
(* statements commit as they execute.  conn holds the rows the open        *)
(* transaction has inserted.                                               *)
(***************************************************************************)
MaxReads == 2

TxnValues ==
    {createFloatValue(<< Dbl(5, -1) >>),
     createStringValue(<< << "a" >> >>),
     createLinkValue(<< createFloatValue(<< Dbl(5, -1) >>) >>)}

InitTxn ==
    /\ trace = << >>
    /\ id_create_mutex = 0
    /\ conn = [w |-> {}]
    /\ PoolAtRest
    /\ \E v1 \in TxnValues, v2 \in TxnValues :
          /\ pc = [w |-> "BEGIN"]
          /\ lcl = [w |-> [v1 |-> v1, v2 |-> v2, vtype |-> 0, kids |-> << >>,
                           todo |-> << >>, ids |-> << >>]]
          /\ StateIs(storeValuation(
                         storeAtom(storeAtom(Constructed(EmptyDB, 1), KeyAtom), TheAtom),
                         KeyAtom, TheAtom, v1))

Steps(to, l) ==
    /\ pc' = [pc EXCEPT !.w = to]
    /\ lcl' = [lcl EXCEPT !.w = l]
    /\ UNCHANGED << trace, id_create_mutex, poolvars >>

TxnBegin ==
    /\ pc.w = "BEGIN"
    /\ Becomes(Begin(Cur))
    /\ Steps("select", lcl.w)
    /\ conn' = [w |-> {}]

\* deleteValuation: SELECT * FROM Valuations WHERE key AND atom
TxnSelect ==
    /\ pc.w = "select"
    /\ Becomes(Begin(Cur))
    /\ \E rows \in {PairRows(Cur)} :
        Steps("delete_children",
              [lcl.w EXCEPT
                 !.vtype = IF rows = {} THEN 0 ELSE (CHOOSE r \in rows : TRUE).type,
                 !.kids = IF rows # {} /\ (CHOOSE r \in rows : TRUE).type = LINK_VALUE
                          THEN unpack_link_ids(
                                   RowResponse(CHOOSE r \in rows : TRUE).lnkval)
                          ELSE << >>])
    /\ UNCHANGED conn

\* deleteValuation: deleteValue of one member of the old link value
TxnDeleteChild ==
    /\ pc.w = "delete_children"
    /\ lcl.w.kids # << >>
    /\ Becomes(deleteValue(Begin(Cur), Head(lcl.w.kids)))
    /\ Steps("delete_children", [lcl.w EXCEPT !.kids = Tail(@)])
    /\ UNCHANGED conn

\* deleteValuation: DELETE FROM Valuations WHERE key AND atom
TxnDeleteRow ==
    /\ pc.w = "delete_children"
    /\ lcl.w.kids = << >>
    /\ Becomes(IF lcl.w.vtype # 0
               THEN [Begin(Cur) EXCEPT !.Valuations = @ \ PairRows(Cur)]
               ELSE Begin(Cur))
    /\ Steps("store_children",
             [lcl.w EXCEPT !.todo = IF lcl.w.v2.type = LINK_VALUE THEN lcl.w.v2.lnk
                                    ELSE << >>])
    /\ UNCHANGED conn

\* link_to_string: storeValue of one member of the new link value
TxnStoreChild ==
    /\ pc.w = "store_children"
    /\ lcl.w.todo # << >>
    /\ \E r \in {storeValue(Begin(Cur), Head(lcl.w.todo))} :
        /\ Becomes(r.M)
        /\ Steps("store_children",
                 [lcl.w EXCEPT !.todo = Tail(@), !.ids = Append(@, r.vuid)])
    /\ UNCHANGED conn

\* INSERT INTO Valuations, in the transaction
TxnInsert ==
    /\ pc.w = "store_children"
    /\ lcl.w.todo = << >>
    /\ Becomes(Begin(Cur))
    /\ Steps("COMMIT", lcl.w)
    /\ conn' = [w |-> insert_Valuations(Cur, tlb_getUUID(Cur, KeyAtom),
                                        tlb_getUUID(Cur, TheAtom),
                                        ValueRowCols(lcl.w.v2, lcl.w.ids)).Valuations
                          \ Valuations]

TxnCommit ==
    /\ pc.w = "COMMIT"
    /\ Becomes([Begin(Cur) EXCEPT !.Valuations = @ \cup conn.w])
    /\ Steps("done", lcl.w)
    /\ conn' = [w |-> {}]

\* The other thread's getValuation(k, a)
TxnGetValuation ==
    /\ Len(trace) < MaxReads
    /\ Becomes(Begin(Cur))
    /\ trace' = Append(trace, [op |-> "getValuation", at |-> pc.w,
                               ret |-> getValuation(Cur, KeyAtom, TheAtom),
                               rows |-> Cardinality(PairRows(Cur))])
    /\ UNCHANGED << pc, lcl, id_create_mutex, conn, poolvars >>

NextTxn ==
    \/ TxnBegin
    \/ TxnSelect
    \/ TxnDeleteChild
    \/ TxnDeleteRow
    \/ TxnStoreChild
    \/ TxnInsert
    \/ TxnCommit
    \/ TxnGetValuation

SpecTxn == InitTxn /\ [][NextTxn]_vars

\* C3: while storeValuation(k, a, v2) runs over the valuation v1, every
\* getValuation(k, a) of another thread returns v1 or v2: never the pair
\* without a row, never a link value whose members are partly deleted.
C3_ReaderSeesOldOrNew ==
    \A i \in DOMAIN trace :
        IsOp(i, "getValuation")
        => trace[i].ret \in {Ret("ok", lcl.w.v1), Ret("ok", lcl.w.v2)}

(***************************************************************************)
(* SpecTypes: a store opened on a database whose TypeCodes table already   *)
(* has rows, written for a runtime whose types differ; setup_typemap       *)
(* reconciles them.                                                        *)
(***************************************************************************)
MaxSeed == 2
MaxSeedCode == 3
MaxReopens == 1

\* Type names that the runtime does not know
UnknownNames == {"Foo", "Bar"}
SeedNames == UnknownNames \cup {getTypeName(t) : t \in 0..(getNumberOfClasses - 1)}

\* TypeCodes(type SMALLINT UNIQUE, typename TEXT UNIQUE)
SeedRows == [type : 0..MaxSeedCode, typename : SeedNames]
RECURSIVE SeedsOf(_)
SeedsOf(n) ==
    IF n = 0 THEN {{}}
    ELSE SeedsOf(n - 1) \cup
         {S \cup {r} : S \in SeedsOf(n - 1),
                       r \in {q \in SeedRows : TRUE}}
Seeds ==
    {S \in SeedsOf(MaxSeed) :
        \A r, q \in S : (r.type = q.type \/ r.typename = q.typename) => r = q}

InitTypes ==
    /\ NoThreads
    /\ \E S \in Seeds :
        /\ trace = << [op |-> "seed", rows |-> S] >>
        /\ StateIs(Constructed([EmptyDB EXCEPT !.TypeCodes = S], 1))

TypesSetup ==
    /\ Alive
    /\ ~type_map_was_loaded
    /\ Becomes(setup_typemap(Begin(Cur)))
    /\ Called([op |-> "setup_typemap"])

\* The store is closed and another one is opened on the same database
TypesReopen ==
    /\ Alive
    /\ type_map_was_loaded
    /\ Cardinality({i \in DOMAIN trace : trace[i].op = "reopen"}) < MaxReopens
    /\ Becomes(Constructed(Cur, table_uuid))
    /\ Called([op |-> "reopen"])

NextTypes ==
    \/ TypesSetup
    \/ TypesReopen

SpecTypes == InitTypes /\ [][NextTypes]_vars

\* The rows (k, X) of the initial TypeCodes whose code k is the runtime's
\* code of a type with another name Y, Y having no row of its own
Clashes ==
    {r \in trace[1].rows :
        /\ r.type < getNumberOfClasses
        /\ getTypeName(r.type) # r.typename
        /\ \A q \in trace[1].rows : q.typename # getTypeName(r.type)}

Reconciled(r) ==
    \E c \in {storing(Cur, r.type)} :
        /\ c # 0
        /\ c # r.type
        /\ {r, [type |-> c, typename |-> getTypeName(r.type)]} \subseteq TypeCodes
        /\ r.typename \in UnknownNames => loading(Cur, r.type) = NOTYPE

NWorkers == 2
MaxQueued == 2
MaxFlushes == 2

Workers == 1..NWorkers

InitQueue ==
    /\ trace = << >>
    /\ id_create_mutex = 0
    /\ conn = [t \in {} |-> 0]
    /\ PoolAtRest
    /\ pc = [t \in 0..NWorkers |-> IF t = 0 THEN "client" ELSE "pop"]
    /\ lcl = [t \in 0..NWorkers |-> NoAtom]
    /\ StateIs(Opened(EmptyDB, 1, [h \in AtomUniverse |-> NewObj]))

Queued == {i \in DOMAIN trace : trace[i].op = "enqueue"}
Flushes == {i \in DOMAIN trace : trace[i].op = "flushStoreQueue"}

\* storeAtom(h, false): get_ids, then _write_queue.enqueue(h)
QueueStoreAtom ==
    /\ pc[0] = "client"
    /\ Cardinality(Queued) < MaxQueued
    /\ \E h \in AtomUniverse :
        /\ Becomes(get_ids(Begin(Cur)))
        /\ store_queue' = Append(store_queue, h)
        /\ trace' = Append(trace, [op |-> "enqueue", h |-> h])
    /\ UNCHANGED << pc, lcl, id_create_mutex, conn, conn_pool, busy_writers >>

\* flushStoreQueue is called: _write_queue.barrier() starts to wait
QueueFlushCall ==
    /\ pc[0] = "client"
    /\ Cardinality(Flushes) < MaxFlushes
    /\ pc' = [pc EXCEPT ![0] = "barrier"]
    /\ trace' = Append(trace, [op |-> "flushStoreQueue"])
    /\ UNCHANGED << storevars, lcl, id_create_mutex, conn, poolvars >>

\* barrier() returns once it finds the queue empty and no writer busy
QueueFlushReturn ==
    /\ pc[0] = "barrier"
    /\ store_queue = << >>
    /\ busy_writers = 0
    /\ pc' = [pc EXCEPT ![0] = "flushed"]
    /\ UNCHANGED << storevars, trace, lcl, id_create_mutex, conn, poolvars >>

\* The client goes on after the barrier
QueueResume ==
    /\ pc[0] = "flushed"
    /\ pc' = [pc EXCEPT ![0] = "client"]
    /\ UNCHANGED << storevars, trace, lcl, id_create_mutex, conn, poolvars >>

\* A writer: pop an atom, count itself busy, write, count itself idle
QueuePop(w) ==
    /\ pc[w] = "pop"
    /\ store_queue # << >>
    /\ store_queue' = Tail(store_queue)
    /\ lcl' = [lcl EXCEPT ![w] = Head(store_queue)]
    /\ pc' = [pc EXCEPT ![w] = "busy"]
    /\ UNCHANGED << storevars, trace, id_create_mutex, conn, conn_pool, busy_writers >>

QueueBusy(w) ==
    /\ pc[w] = "busy"
    /\ busy_writers' = busy_writers + 1
    /\ pc' = [pc EXCEPT ![w] = "write"]
    /\ UNCHANGED << storevars, trace, lcl, id_create_mutex, conn, conn_pool, store_queue >>

\* vdo_store_atom(h)
QueueWrite(w) ==
    /\ pc[w] = "write"
    /\ Becomes(do_store_atom(Begin(Cur), lcl[w]).M)
    /\ pc' = [pc EXCEPT ![w] = "written"]
    /\ UNCHANGED << trace, lcl, id_create_mutex, conn, poolvars >>

QueueIdle(w) ==
    /\ pc[w] = "written"
    /\ busy_writers' = busy_writers - 1
    /\ lcl' = [lcl EXCEPT ![w] = NoAtom]
    /\ pc' = [pc EXCEPT ![w] = "pop"]
    /\ UNCHANGED << storevars, trace, id_create_mutex, conn, conn_pool, store_queue >>

NextQueue ==
    \/ QueueStoreAtom
    \/ QueueFlushCall
    \/ QueueFlushReturn
    \/ QueueResume
    \/ \E w \in Workers : QueuePop(w)
    \/ \E w \in Workers : QueueBusy(w)
    \/ \E w \in Workers : QueueWrite(w)
    \/ \E w \in Workers : QueueIdle(w)

SpecQueue == InitQueue /\ [][NextQueue]_vars

\* The statement of a store of h reached the database
StoreExecuted(h) == \E e \in log : e.h = h

\* C12: when flushStoreQueue returns, the write-back queue is empty, no
\* writer is still executing a store, and every atom passed to
\* storeAtom(h, false) before the call has been stored in the database.
C12_BarrierDrains ==
    pc[0] = "flushed" =>
        /\ store_queue = << >>
        /\ \A w \in Workers : pc[w] = "pop"
        /\ \A i \in Queued : StoreExecuted(trace[i].h)

(***************************************************************************)
(* SpecPool: the connections.  Every query goes through a Response: the    *)
(* constructor takes no connection, exec pops one from conn_pool on its    *)
(* first call, the destructor pushes it back.  A public operation is the   *)
(* sequence of Response scopes, exec calls and throw sites its code goes   *)
(* through; lcl[t].frames are the Responses alive on the stack of thread   *)
(* t, TRUE for one that holds a connection.                                *)
(***************************************************************************)
NPoolThreads == 1
MaxDepth == 1

\* ~Response: put the connection back into the pool
dtor_Response_mut(pool, has_conn) == pool
dtor_Response(pool, has_conn) == IF has_conn THEN pool + 1 ELSE pool

\* Stack unwinding: the destructor of every Response alive
RECURSIVE unwind(_, _)
unwind(pool, frames) ==
    IF frames = << >> THEN pool
    ELSE unwind(dtor_Response(pool, frames[Len(frames)]),
                SubSeq(frames, 1, Len(frames) - 1))

\* doGetValue and doUnpackValue, for a value nested d deep
RECURSIVE prog_getValue(_)
prog_getValue(d) ==
    << "Response", "exec", "throw?" >>
        \o (IF d > 0 THEN prog_getValue(d - 1) ELSE << >>)
        \o << "~Response" >>

RECURSIVE prog_deleteValue(_)
prog_deleteValue(d) ==
    << "Response", "exec" >>
        \o (IF d > 0 THEN prog_deleteValue(d - 1) ELSE << >>)
        \o << "exec", "~Response" >>

\* storeValue: link_to_string stores the members first
RECURSIVE prog_storeValue(_)
prog_storeValue(d) ==
    (IF d > 0 THEN prog_storeValue(d - 1) ELSE << >>)
        \o << "Response", "exec", "~Response" >>

\* deleteValuation; d = -1 when the pair has no row
prog_deleteValuation(d) ==
    << "Response", "exec" >>
        \o (IF d > 0 THEN prog_deleteValue(d - 1) ELSE << >>)
        \o (IF d >= 0 THEN << "exec" >> ELSE << >>)
        \o << "~Response" >>

\* storeValuation: BEGIN, deleteValuation, the members, INSERT, COMMIT
prog_storeValuation(dold, dnew) ==
    << "Response", "exec" >>
        \o prog_deleteValuation(dold)
        \o (IF dnew > 0 THEN prog_storeValue(dnew - 1) ELSE << >>)
        \o << "exec", "exec", "~Response" >>

prog_getMaxObservedUUID == << "Response", "exec", "~Response" >>

prog_get_ids(inited) ==
    IF inited THEN << >>
    ELSE << "Response" >> \o prog_getMaxObservedUUID \o << "exec", "exec", "~Response" >>

prog_store_atomtable_id == << "Response", "exec", "~Response" >>

\* do_store_single_atom: the checks that throw, the statement, the retry
prog_do_store_single_atom(retry) ==
    << "throw?", "Response", "exec", "~Response" >>
        \o (IF retry THEN prog_store_atomtable_id \o << "Response", "exec", "~Response" >>
            ELSE << >>)

prog_storeAtom(inited, retry) == prog_get_ids(inited) \o prog_do_store_single_atom(retry)

prog_setup_typemap(loaded) ==
    IF loaded THEN << >>
    ELSE << "Response", "exec", "~Response", "Response", "exec", "~Response" >>

\* getAtom: the query, then makeAtom, which throws for an unknown type
prog_getAtom == << "Response", "exec", "throw?", "~Response" >>

\* getIncomingSet: a row whose link has a member to fetch or not
prog_getIncomingSet(loaded, fetch) ==
    prog_setup_typemap(loaded)
        \o << "Response", "exec", "throw?" >>
        \o (IF fetch THEN prog_getAtom ELSE << >>)
        \o << "~Response" >>

prog_connected == << "pop", "connected", "push" >>

PublicCalls ==
    {prog_connected}
        \cup {prog_getValue(d) : d \in 0..MaxDepth}
        \cup {prog_deleteValue(d) : d \in 0..MaxDepth}
        \cup {prog_storeValue(d) : d \in 0..MaxDepth}
        \cup {prog_storeValuation(o, n) : o \in -1..MaxDepth, n \in 0..MaxDepth}
        \cup {prog_storeAtom(i, r) : i, r \in BOOLEAN}
        \cup {prog_getIncomingSet(l, f) : l, f \in BOOLEAN}

PoolThreads == 1..NPoolThreads

Resting(last) == [prog |-> << >>, frames |-> << >>, raw |-> 0, last |-> last]

InitPool ==
    /\ trace = << >>
    /\ id_create_mutex = 0
    /\ conn = [t \in {} |-> 0]
    /\ PoolAtRest
    /\ pc = [t \in PoolThreads |-> "idle"]
    /\ lcl = [t \in PoolThreads |-> Resting([how |-> "none", held |-> 0])]
    /\ StateIs(Constructed(EmptyDB, 1))

PoolStep(t, to, l, pool) ==
    /\ pc' = [pc EXCEPT ![t] = to]
    /\ lcl' = [lcl EXCEPT ![t] = l]
    /\ conn_pool' = pool
    /\ UNCHANGED << storevars, trace, id_create_mutex, conn, store_queue, busy_writers >>

Runs(t, ins) == pc[t] = "run" /\ lcl[t].prog # << >> /\ Head(lcl[t].prog) = ins
Next1(t) == [lcl[t] EXCEPT !.prog = Tail(@)]

PoolCall(t) ==
    /\ pc[t] = "idle"
    /\ \E prog \in PublicCalls :
        PoolStep(t, "run", [lcl[t] EXCEPT !.prog = prog], conn_pool)

\* Response::Response: _conn = nullptr
PoolResponse(t) ==
    /\ Runs(t, "Response")
    /\ PoolStep(t, "run", [Next1(t) EXCEPT !.frames = Append(@, FALSE)], conn_pool)

\* Response::exec: if (nullptr == _conn) _conn = _pool.pop(), which waits
\* while the pool is empty
PoolExec(t) ==
    /\ Runs(t, "exec")
    /\ \E n \in {Len(lcl[t].frames)} :
        IF lcl[t].frames[n] THEN PoolStep(t, "run", Next1(t), conn_pool)
        ELSE /\ conn_pool > 0
             /\ PoolStep(t, "run", [Next1(t) EXCEPT !.frames[n] = TRUE], conn_pool - 1)

\* Response::~Response
PoolDtor(t) ==
    /\ Runs(t, "~Response")
    /\ \E n \in {Len(lcl[t].frames)} :
        PoolStep(t, "run", [Next1(t) EXCEPT !.frames = SubSeq(@, 1, n - 1)],
                 dtor_Response(conn_pool, lcl[t].frames[n]))

PoolNoThrow(t) ==
    /\ Runs(t, "throw?")
    /\ PoolStep(t, "run", Next1(t), conn_pool)

\* throw IOException: the operation ends, the stack is unwound
PoolThrow(t) ==
    /\ Runs(t, "throw?")
    /\ PoolStep(t, "run",
                Resting([how |-> "threw",
                         held |-> Cardinality({i \in DOMAIN lcl[t].frames :
                                                  lcl[t].frames[i]})]),
                unwind(conn_pool, lcl[t].frames))

\* connected(): conn_pool.pop(); db_conn->connected(); conn_pool.push()
PoolPop(t) ==
    /\ Runs(t, "pop")
    /\ conn_pool > 0
    /\ PoolStep(t, "run", [Next1(t) EXCEPT !.raw = 1], conn_pool - 1)

PoolConnected(t) ==
    /\ Runs(t, "connected")
    /\ PoolStep(t, "run", Next1(t), conn_pool)

PoolPush(t) ==
    /\ Runs(t, "push")
    /\ PoolStep(t, "run", [Next1(t) EXCEPT !.raw = 0], conn_pool + 1)

PoolReturn(t) ==
    /\ pc[t] = "run"
    /\ lcl[t].prog = << >>
    /\ PoolStep(t, "idle",
                IF lcl[t].last.how = "threw" THEN lcl[t]
                ELSE [lcl[t] EXCEPT !.last = [how |-> "returned", held |-> 0]],
                conn_pool)

NextPool ==
    \/ \E t \in PoolThreads : PoolCall(t)
    \/ \E t \in PoolThreads : PoolResponse(t)
    \/ \E t \in PoolThreads : PoolExec(t)
    \/ \E t \in PoolThreads : PoolDtor(t)
    \/ \E t \in PoolThreads : PoolNoThrow(t)
    \/ \E t \in PoolThreads : PoolThrow(t)
    \/ \E t \in PoolThreads : PoolPop(t)
    \/ \E t \in PoolThreads : PoolConnected(t)
    \/ \E t \in PoolThreads : PoolPush(t)
    \/ \E t \in PoolThreads : PoolReturn(t)

SpecPool == InitPool /\ [][NextPool]_vars

Writers == 1..initial_conn_pool_size

InitStarve ==
    /\ trace = << >>
    /\ id_create_mutex = 0
    /\ PoolAtRest
    /\ pc = [t \in {0} \cup Writers |-> "idle"]
    /\ lcl = [t \in {0} \cup Writers |-> 0]
    /\ conn = [t \in {0} \cup Writers |-> 0]
    /\ StateIs(Constructed(EmptyDB, 1))

\* Thread t goes to pc value to, taking d connections from the pool
Takes(t, to, d) ==
    /\ conn_pool >= d
    /\ conn_pool' = conn_pool - d
    /\ conn' = [conn EXCEPT ![t] = @ + d]
    /\ pc' = [pc EXCEPT ![t] = to]
    /\ UNCHANGED << storevars, trace, lcl, id_create_mutex, store_queue, busy_writers >>

\* storeValuation: Response rp; rp.exec("BEGIN")
StarveBegin(t) == t \in Writers /\ pc[t] = "idle" /\ Takes(t, "BEGIN", 1)

\* deleteValuation: Response rp; rp.exec(SELECT) and the DELETE
StarveDelete(t) == t \in Writers /\ pc[t] = "BEGIN" /\ Takes(t, "deleteValuation", 1)

\* deleteValuation returns: its Response gives its connection back
StarveDeleted(t) == t \in Writers /\ pc[t] = "deleteValuation" /\ Takes(t, "INSERT", -1)

\* rp.exec(INSERT); rp.exec("COMMIT"); storeValuation returns
StarveCommit(t) == t \in Writers /\ pc[t] = "INSERT" /\ Takes(t, "idle", -1)

\* getValue: doGetValue's Response, for a value that is not a LinkValue
StarveGetValue == pc[0] = "idle" /\ Takes(0, "getValue", 1)
StarveGotValue == pc[0] = "getValue" /\ Takes(0, "idle", -1)

NextStarve ==
    \/ \E t \in Writers : StarveBegin(t)
    \/ \E t \in Writers : StarveDelete(t)
    \/ \E t \in Writers : StarveDeleted(t)
    \/ \E t \in Writers : StarveCommit(t)
    \/ StarveGetValue
    \/ StarveGotValue

SpecStarve == InitStarve /\ [][NextStarve]_vars

\* The next step of thread t is to take a connection
WaitsForConnection(t) == pc[t] \in {"idle", "BEGIN"}

\* C14: with the pool at its configured size, no state is reachable in
\* which every connection is held by a thread that is itself waiting for
\* another connection: some thread can always go on.
C14_SomeThreadProgresses ==
    ~(/\ conn_pool = 0
      /\ \A t \in DOMAIN pc : WaitsForConnection(t))

(***************************************************************************)
(* References between rows (SpecAtom).                                     *)
(***************************************************************************)
AtomUUIDs == {r.uuid : r \in Atoms}

ReferencesResolve ==
    /\ \A r \in Atoms :
          r.outgoing # NullCol =>
              \A i \in DOMAIN r.outgoing[1] : r.outgoing[1][i] \in AtomUUIDs
    /\ \A v \in Valuations : v.key \in AtomUUIDs /\ v.atom \in AtomUUIDs

\* C15: after every synchronous storeAtom(h) that returned, every UUID in
\* the outgoing column of an Atoms row, and the key and the atom of every
\* Valuations row, is the uuid of a row of Atoms.
C15_StoredReferencesResolve ==
    (/\ IsOp(Len(trace), "storeAtom")
     /\ Alive
     /\ trace[Len(trace)].exc = "") => ReferencesResolve

\* C17: across the stores of an atom, the type, name, outgoing list and
\* height of its Atoms row are written by the INSERT alone: no later
\* statement changes them (nor the space); an UPDATE changes only the
\* truth-value columns.
C17_KeyColumnsWrittenOnce ==
    [][\A r \in Atoms : \A q \in Atoms' :
          q.uuid = r.uuid =>
              /\ q.type = r.type
              /\ q.name = r.name
              /\ q.outgoing = r.outgoing
              /\ q.height = r.height
              /\ q.space = r.space]_vars

\* An UPDATE has rewritten the truth value of a row that an INSERT wrote.
C17_RowUpdated ==
    \E e \in log :
        /\ e.op = "UPDATE"
        /\ e.had_row
        /\ \E i \in log : i.op = "INSERT" /\ i.uuid = e.uuid /\ ~i.had_row

\* C19: when the statement of a synchronous store is rejected, for another
\* reason than an unknown space and on its retry too, storeAtom does not
\* return normally.  While every storeAtom so far has returned normally,
\* every INSERT that was sent has its row in Atoms.
C19_RejectedStatementSurfaced ==
    (/\ Alive
     /\ \A i \in DOMAIN trace : IsOp(i, "storeAtom") => trace[i].exc = "")
    => \A e \in log : e.op = "INSERT" => \E r \in Atoms : r.uuid = e.uuid

(***************************************************************************)
(* SpecCaps: one thread stores nodes whose names are around the cap of     *)
(* do_store_single_atom, and short links, into an empty database.          *)
(***************************************************************************)
MaxCapOps == 3

\* A name of n bytes
RECURSIVE Pad(_)
Pad(n) ==
    IF n = 0 THEN ""
    ELSE IF n % 2 = 1 THEN "x" \o Pad(n - 1)
    ELSE Let(Pad(n \div 2), LAMBDA half : half \o half)

NameLens == {2688, 2689, 2700, 2701}
Arities == {1, 2}

CapNodes == {createNode(CONCEPT_NODE, Pad(n)) : n \in NameLens}
CapLinks == {createLink(LIST_LINK, [i \in 1..n |-> TheAtom]) : n \in Arities}
CapUniverse == CapNodes \cup CapLinks

InitCaps ==
    /\ NoThreads
    /\ trace = << >>
    /\ \E tuuid \in TableUUIDs :
          StateIs(Opened(EmptyDB, tuuid, [h \in CapUniverse \cup {TheAtom} |-> NewObj]))

\* storeAtom(h); wrote: the call added a row with the UUID of h to Atoms
CapsStore ==
    /\ CanCall(MaxCapOps)
    /\ \E h \in CapUniverse :
        \E M \in {storeAtom(Begin(Cur), h)} :
            /\ Becomes(M)
            /\ Called([op |-> "storeAtom", h |-> h, exc |-> M.exc,
                       wrote |-> \E r \in M.Atoms \ Atoms : r.uuid = tlb_getUUID(M, h)])

NextCaps == CapsStore

SpecCaps == InitCaps /\ [][NextCaps]_vars

FirstStore(i) ==
    /\ IsOp(i, "storeAtom")
    /\ \A j \in 1..(i - 1) : trace[j].h # trace[i].h

WithinCaps(h) == IF isNode(h) THEN Len(h.name) <= 2700 ELSE Len(h.out) <= 330

\* C18: the first store of a node writes its row and returns normally if
\* and only if the name has at most 2700 bytes, the first store of a link
\* if and only if its arity is at most 330; beyond the cap the call raises
\* an error and writes no row for the atom.
C18_CapsDecideFirstStore ==
    \A i \in DOMAIN trace :
        FirstStore(i) =>
            /\ (trace[i].wrote /\ trace[i].exc = "") <=> WithinCaps(trace[i].h)
            /\ ~WithinCaps(trace[i].h) => (trace[i].exc # "" /\ ~trace[i].wrote)

(***************************************************************************)
(* Link values in the committed tables (SpecTxn).                          *)
(***************************************************************************)
VUIDs == {r.vuid : r \in Values}

\* C16: in every state of the tables that another thread can read, every
\* VUID in the linkvalue column of a row of Values or of Valuations is the
\* vuid of a row of Values, between the statements of storeValuation and
\* deleteValuation too.
C16_LinkValueMembersExist ==
    \A r \in Values \cup Valuations :
        r.linkvalue # NullCol =>
            \A i \in DOMAIN r.linkvalue[1] : r.linkvalue[1][i] \in VUIDs

(***************************************************************************)
(* SpecDangle: one thread stores a node and a link over it, atoms leave    *)
(* the TLB, the store is reopened, and load() reads the database back.     *)
(***************************************************************************)
MaxDangleOps == 5

DangleUniverse == {TheAtom, TheLink}

InitDangle ==
    /\ NoThreads
    /\ trace = << >>
    /\ \E tuuid \in TableUUIDs :
          StateIs(Opened(EmptyDB, tuuid, [h \in DangleUniverse |-> NewObj]))

DangleStore ==
    /\ CanCall(MaxDangleOps)
    /\ \E h \in DangleUniverse :
        \E M \in {storeAtom(Begin(Cur), h)} :
            /\ Becomes(M)
            /\ Called([op |-> "storeAtom", h |-> h, exc |-> M.exc])

\* extract_callback
DangleRemove ==
    /\ CanCall(MaxDangleOps)
    /\ \E h \in DOMAIN h2u :
        /\ Becomes(tlb_removeAtom(Begin(Cur), h))
        /\ Called([op |-> "removeAtom", h |-> h])

\* The store is destroyed and a new one constructed on the same database
DangleReopen ==
    /\ CanCall(MaxDangleOps)
    /\ ~IsOp(Len(trace), "restart")
    /\ Becomes([Opened(Cur, table_uuid, mem) EXCEPT !.log = log])
    /\ Called([op |-> "restart"])

\* The rows of links with a member UUID that no handle of the TLB is bound
\* to and that no row of Atoms has
UnresolvedChild(M) ==
    {r \in M.Atoms :
        /\ r.outgoing # NullCol
        /\ \E i \in DOMAIN r.outgoing[1] :
              /\ tlb_getAtom(M, r.outgoing[1][i]) = NoAtom
              /\ ~\E q \in M.Atoms : q.uuid = r.outgoing[1][i]}

\* load(table) into an empty table
DangleLoad ==
    /\ CanCall(MaxDangleOps)
    /\ \E M \in {load([Begin(Cur) EXCEPT !.F = [h \in {} |-> DefaultTV]])} :
        /\ Becomes(M)
        /\ Called([op |-> "load", exc |-> M.exc, crashed |-> M.crashed \/ M.ub,
                   unresolved |-> UnresolvedChild(Cur) # {}])

NextDangle ==
    \/ DangleStore
    \/ DangleRemove
    \/ DangleReopen
    \/ DangleLoad

SpecDangle == InitDangle /\ [][NextDangle]_vars

\* C20: a load that meets a link one of whose members is neither resolved
\* in the TLB nor a row of Atoms ends in an error: it does not go on with a
\* member record that was never read, and puts no such link into the table.
C20_MissingChildIsAnError ==
    \A i \in DOMAIN trace :
        (IsOp(i, "load") /\ trace[i].unresolved)
        => trace[i].exc # "" /\ ~trace[i].crashed

(***************************************************************************)
(* SpecInit: init() fills the connection pool on a machine that reports    *)
(* any number of cores from 0 to MaxCores.                                 *)
(***************************************************************************)
MaxCores == 12

InitInit ==
    /\ id_create_mutex = 0
    /\ conn = [t \in {} |-> 0]
    /\ store_queue = << >>
    /\ busy_writers = 0
    /\ conn_pool = 0
    /\ pc = [m |-> "push"]
    /\ \E hc \in 0..MaxCores :
          /\ trace = << [op |-> "init", hc |-> hc] >>
          /\ lcl = [m |-> init_pool_size(hc)]
    /\ StateIs(Constructed(EmptyDB, 1))

\* conn_pool.push(db_conn), while i < _initial_conn_pool_size
InitPush ==
    /\ pc.m = "push"
    /\ conn_pool < lcl.m
    /\ conn_pool' = conn_pool + 1
    /\ UNCHANGED << storevars, trace, pc, lcl, id_create_mutex, conn,
                    store_queue, busy_writers >>

\* the end of the loop and the rest of init
InitRest ==
    /\ pc.m = "push"
    /\ conn_pool >= lcl.m
    /\ pc' = [m |-> "done"]
    /\ UNCHANGED << storevars, trace, lcl, id_create_mutex, conn, poolvars >>

NextInit ==
    \/ InitPush
    \/ InitRest

SpecInit == InitInit /\ [][NextInit]_vars

\* C24: for every number of cores hc that the machine reports, 0 and 1 to 7
\* included, init leaves max(hc, 8) connections plus one for each
\* write-back queue in the pool.
C24_PoolSizeIsMaxOfCoresAnd8 ==
    pc.m = "done" => conn_pool = Max(trace[1].hc, 8) + NUM_WB_QUEUES

\* C24 as the code has it: hc connections, 8 when the machine reports no
\* cores, plus one for each write-back queue.
C24_PoolSizeIsCoresOr8 ==
    pc.m = "done" =>
        conn_pool = (IF trace[1].hc = 0 THEN 8 ELSE trace[1].hc) + NUM_WB_QUEUES

\* init has ended on a machine of 3 cores, with 11 connections
C24_ThreeCores ==
    pc.m = "done" /\ trace[1].hc = 3 /\ conn_pool = 11

(***************************************************************************)
(* SpecTeardown: the store is destroyed while atoms queued with            *)
(* storeAtom(h, false) may still be in the write-back queue or with a      *)
(* writer.  Thread 0 is the client, which queues atoms and then runs       *)
(* ~SQLAtomStorage; lcl[0] counts the connections it has deleted.  A       *)
(* writer takes a connection for its statements and gives it back.         *)
(***************************************************************************)
InitTeardown ==
    /\ trace = << >>
    /\ id_create_mutex = 0
    /\ conn = [t \in {} |-> 0]
    /\ PoolAtRest
    /\ pc = [t \in 0..NWorkers |-> IF t = 0 THEN "client" ELSE "pop"]
    /\ lcl = [t \in 0..NWorkers |-> IF t = 0 THEN 0 ELSE NoAtom]
    /\ StateIs(Opened(EmptyDB, 1, [h \in AtomUniverse |-> NewObj]))

\* storeAtom(h, false)
DownStoreAtom ==
    /\ pc[0] = "client"
    /\ Cardinality(Queued) < MaxQueued
    /\ \E h \in AtomUniverse :
        /\ Becomes(get_ids(Begin(Cur)))
        /\ store_queue' = Append(store_queue, h)
        /\ trace' = Append(trace, [op |-> "enqueue", h |-> h])
    /\ UNCHANGED << pc, lcl, id_create_mutex, conn, conn_pool, busy_writers >>

\* ~SQLAtomStorage is entered
DownDtor ==
    /\ pc[0] = "client"
    /\ pc' = [pc EXCEPT ![0] = "dtor"]
    /\ UNCHANGED << storevars, trace, lcl, id_create_mutex, conn, poolvars >>

\* while (not conn_pool.is_empty()): pop a connection and delete it
DownDelete ==
    /\ pc[0] = "dtor"
    /\ conn_pool > 0
    /\ conn_pool' = conn_pool - 1
    /\ lcl' = [lcl EXCEPT ![0] = @ + 1]
    /\ UNCHANGED << storevars, trace, pc, id_create_mutex, conn, store_queue,
                    busy_writers >>

\* The loop finds the pool empty: the body of the destructor ends
DownEnd ==
    /\ pc[0] = "dtor"
    /\ conn_pool = 0
    /\ pc' = [pc EXCEPT ![0] = "destroyed"]
    /\ UNCHANGED << storevars, trace, lcl, id_create_mutex, conn, poolvars >>

DownPop(w) ==
    /\ pc[w] = "pop"
    /\ store_queue # << >>
    /\ store_queue' = Tail(store_queue)
    /\ busy_writers' = busy_writers + 1
    /\ lcl' = [lcl EXCEPT ![w] = Head(store_queue)]
    /\ pc' = [pc EXCEPT ![w] = "exec"]
    /\ UNCHANGED << storevars, trace, id_create_mutex, conn, conn_pool >>

\* Response::exec of the writer's first statement: _pool.pop(), which waits
\* while the pool is empty
DownExec(w) ==
    /\ pc[w] = "exec"
    /\ conn_pool > 0
    /\ conn_pool' = conn_pool - 1
    /\ pc' = [pc EXCEPT ![w] = "write"]
    /\ UNCHANGED << storevars, trace, lcl, id_create_mutex, conn, store_queue,
                    busy_writers >>

\* vdo_store_atom(h) to its end; ~Response pushes the connection back
DownWrite(w) ==
    /\ pc[w] = "write"
    /\ Becomes(do_store_atom(Begin(Cur), lcl[w]).M)
    /\ conn_pool' = conn_pool + 1
    /\ busy_writers' = busy_writers - 1
    /\ lcl' = [lcl EXCEPT ![w] = NoAtom]
    /\ pc' = [pc EXCEPT ![w] = "pop"]
    /\ UNCHANGED << trace, id_create_mutex, conn, store_queue >>

NextTeardown ==
    \/ DownStoreAtom
    \/ DownDtor
    \/ DownDelete
    \/ DownEnd
    \/ \E w \in Workers : DownPop(w)
    \/ \E w \in Workers : DownExec(w)
    \/ \E w \in Workers : DownWrite(w)

SpecTeardown == InitTeardown /\ [][NextTeardown]_vars

\* C21: the destructor deletes a connection only after the write-back queue
\* is drained and every connection is back in the pool: once a connection
\* is deleted nothing is queued, no writer is at work, and every atom that
\* was queued has been stored.
C21_TeardownDrainsFirst ==
    lcl[0] > 0 =>
        /\ store_queue = << >>
        /\ \A w \in Workers : pc[w] = "pop"
        /\ \A i \in Queued : StoreExecuted(trace[i].h)

(***************************************************************************)
(* The columns of an Indefinite truth value (SpecAtom).                    *)
(***************************************************************************)
LastCall == trace[Len(trace)]

\* The rows that the atom of the last call is bound to
LastRows(h) == {r \in Atoms : r.uuid = tlb_getUUID(Cur, h)}

StoredIndefinite ==
    /\ IsOp(Len(trace), "storeAtom")
    /\ Alive
    /\ LastCall.exc = ""
    /\ LastCall.obj.tv.type = INDEFINITE_TRUTH_VALUE

FetchedIndefinite(r) ==
    /\ IsOp(Len(trace), "getAtom")
    /\ Alive
    /\ LastCall.found
    /\ r.uuid = LastCall.uuid
    /\ r.tv_type = INDEFINITE_TRUTH_VALUE

\* C26: a store of an atom with an Indefinite truth value writes L into
\* stv_mean, U into stv_confidence and the confidence level into stv_count,
\* and a fetch builds the truth value from the same slots.
C26_IndefiniteSlotsAsStated ==
    /\ StoredIndefinite =>
          \A r \in LastRows(LastCall.h) :
              /\ r.stv_mean = STMTF(LastCall.obj.tv.v1)
              /\ r.stv_confidence = STMTF(LastCall.obj.tv.v2)
              /\ r.stv_count = STMTF(LastCall.obj.tv.v3)
    /\ \A r \in Atoms :
          FetchedIndefinite(r) =>
              LastCall.obj.tv = IndefiniteTV(r.stv_mean, r.stv_confidence, r.stv_count)

\* C26 as the code has it: L goes into stv_mean, U into stv_count and the
\* confidence level into stv_confidence, and a fetch reads L, U and the
\* level back from stv_mean, stv_count and stv_confidence.
C26_IndefiniteSlotsInCode ==
    /\ StoredIndefinite =>
          \A r \in LastRows(LastCall.h) :
              /\ r.tv_type = INDEFINITE_TRUTH_VALUE
              /\ r.stv_mean = STMTF(LastCall.obj.tv.v1)
              /\ r.stv_count = STMTF(LastCall.obj.tv.v2)
              /\ r.stv_confidence = STMTF(LastCall.obj.tv.v3)
    /\ \A r \in Atoms :
          FetchedIndefinite(r) =>
              LastCall.obj.tv = IndefiniteTV(r.stv_mean, r.stv_count, r.stv_confidence)

\* An atom stored with the Indefinite truth value (0.2, 0.8, 0.9) left the
\* TLB and was fetched back with that truth value.
C26_IndefiniteFetched ==
    /\ \E r \in Atoms : FetchedIndefinite(r)
    /\ LastCall.obj.tv = IndefiniteTV(Dbl(2, -1), Dbl(8, -1), Dbl(9, -1))
    /\ \E i \in DOMAIN trace :
          /\ IsOp(i, "storeAtom")
          /\ trace[i].h = LastCall.h
          /\ trace[i].obj.tv = LastCall.obj.tv
    /\ \E i \in DOMAIN trace : IsOp(i, "removeAtom") /\ trace[i].h = LastCall.h

(***************************************************************************)
(* SpecNest: one thread stores loose values, stores a nested LinkValue as  *)
(* the valuation of a (key, atom) pair, and deletes the valuation.         *)
(***************************************************************************)
MaxNestOps == 4

\* LinkValue(FloatValue(1), LinkValue(StringValue("z")))
TheNest ==
    createLinkValue(<< createFloatValue(<< Dbl(1, 0) >>),
                       createLinkValue(<< createStringValue(<< << "z" >> >>) >>) >>)

LooseValues ==
    {createFloatValue(<< Dbl(5, -1) >>), createStringValue(<< << "z" >> >>),
     createLinkValue(<< createFloatValue(<< Dbl(1, 0) >>) >>)}

InitNest ==
    /\ NoThreads
    /\ trace = << >>
    /\ StateIs(storeAtom(storeAtom(Constructed(EmptyDB, 1), KeyAtom), TheAtom))

NestStoreValue ==
    /\ CanCall(MaxNestOps)
    /\ \E v \in LooseValues :
        \E r \in {storeValue(Begin(Cur), v)} :
            /\ Becomes(r.M)
            /\ Called([op |-> "storeValue", v |-> v, vuid |-> r.vuid])

NestStoreValuation ==
    /\ CanCall(MaxNestOps)
    /\ \E v \in {TheNest, createFloatValue(<< Dbl(5, -1) >>)} :
        /\ Becomes(storeValuation(Begin(Cur), KeyAtom, TheAtom, v))
        /\ Called([op |-> "storeValuation", v |-> v, had |-> PairRows(Cur) # {},
                   before |-> Values])

NestDeleteValuation ==
    /\ CanCall(MaxNestOps)
    /\ Becomes(deleteValuation(Begin(Cur), KeyAtom, TheAtom))
    /\ Called([op |-> "deleteValuation", had |-> PairRows(Cur) # {}, before |-> Values])

NextNest ==
    \/ NestStoreValue
    \/ NestStoreValuation
    \/ NestDeleteValuation

SpecNest == InitNest /\ [][NextNest]_vars

\* The last two calls stored the nested value for a pair that had no
\* valuation, and deleted the valuation
NestStoredAndDeleted ==
    /\ Len(trace) >= 2
    /\ IsOp(Len(trace) - 1, "storeValuation")
    /\ trace[Len(trace) - 1].v = TheNest
    /\ ~trace[Len(trace) - 1].had
    /\ IsOp(Len(trace), "deleteValuation")

\* The rows of Values that storeValuation added, seen right after it
NestAdded(n) ==
    (IsOp(Len(trace), "storeValuation") /\ LastCall.v = TheNest /\ ~LastCall.had)
    => /\ LastCall.before \subseteq Values
       /\ Cardinality(Values \ LastCall.before) = n

\* C25: storing LinkValue(FloatValue(1), LinkValue(StringValue("z"))) as a
\* valuation adds exactly four rows to Values, and deleting the valuation
\* removes them and leaves Values as it was before the store.
C25_FourRowsStoredAndDeleted ==
    /\ NestAdded(4)
    /\ NestStoredAndDeleted => Values = trace[Len(trace) - 1].before

\* C25 as the code has it: the store adds three rows to Values, one for
\* each value below the top, whose own columns are in the row of
\* Valuations; the delete removes the three.
C25_ThreeRowsStoredAndDeleted ==
    /\ NestAdded(3)
    /\ NestStoredAndDeleted => Values = trace[Len(trace) - 1].before

\* The nested value was stored over a Values table that had rows, and
\* deleted: the rows of before are there again, and the pair has no row.
C25_NestDeleted ==
    /\ NestStoredAndDeleted
    /\ trace[Len(trace) - 1].before # {}
    /\ Cardinality(LastCall.before) = Cardinality(Values) + 3
    /\ PairRows(Cur) = {}

(***************************************************************************)
(* loadType.                                                               *)
(***************************************************************************)
\* load_if_not_exists_cb as it would be with the fetch's setTruthValue on
\* the atom a row is bound to
load_if_not_exists_cb_mut(M, r, hei) ==
    IF tlb_getAtom(M, r.uuid) # NoAtom
    THEN setTruthValue(M, tlb_getAtom(M, r.uuid), RowTV(r))
    ELSE M

\* load_if_not_exists_cb for one row: nothing for a UUID that the TLB
\* resolves; otherwise the atom is made and, unless the table has it,
\* added to the table and bound to the row's UUID.
load_if_not_exists_cb(M, r, hei) ==
    IF tlb_getAtom(M, r.uuid) # NoAtom THEN M
    ELSE Let(makeAtom(M, r, hei), LAMBDA m :
         Let(get_recursive_if_not_exists(m.M, TRUE, m.p), LAMBDA a :
             IF Stopped(a.M) \/ a.h \in DOMAIN a.M.F THEN a.M
             ELSE [tlb_addAtom(a.M, a.h, r.uuid).M EXCEPT
                      !.F = table_add(@, a.h, a.M.made)]))

\* foreach_row(load_if_not_exists_cb), in uuid order
RECURSIVE load_if_not_exists_rows(_, _, _)
load_if_not_exists_rows(M, rows, hei) ==
    IF rows = {} \/ Stopped(M) THEN M
    ELSE Let(CHOOSE r \in rows : \A q \in rows : r.uuid <= q.uuid, LAMBDA r :
             load_if_not_exists_rows(load_if_not_exists_cb(M, r, hei), rows \ {r}, hei))

RECURSIVE loadType_heights(_, _, _, _)
loadType_heights(M, hei, max_nrec, db_atom_type) ==
    IF hei > M.max_height \/ Stopped(M) THEN M
    ELSE loadType_heights(
             load_if_not_exists_rows(
                 M, {r \in M.Atoms : /\ r.type = db_atom_type
                                     /\ r.height = hei
                                     /\ InChunks(r.uuid, max_nrec, STEP)}, hei),
             hei + 1, max_nrec, db_atom_type)

\* loadType(table, atom_type), the table being M.F
loadType(M, atom_type) ==
    Let(getMaxObservedUUID(M), LAMBDA max_nrec :
    Let(setup_typemap([tlb_reserve_upto(M, max_nrec) EXCEPT
                          !.load_count = 0,
                          !.max_height = IF isNodeType(atom_type) THEN 0
                                         ELSE getMaxObservedHeight(M)]),
        LAMBDA M1 :
            loadType_heights(M1, 0, max_nrec, storing(M1, atom_type))))

(***************************************************************************)
(* SpecLoadType: one thread stores atoms, whose truth values their owner   *)
(* changes in memory and which leave the TLB, and calls loadType for       *)
(* nodes or for links.                                                     *)
(***************************************************************************)
MaxLtOps == 5

LtTVs == {IndefiniteTV(Dbl(2, -1), Dbl(8, -1), Dbl(9, -1))}

InitLoadType ==
    /\ NoThreads
    /\ trace = << >>
    /\ StateIs(Opened(EmptyDB, 1, [h \in AtomUniverse |-> NewObj]))

LtStore ==
    /\ CanCall(MaxLtOps)
    /\ \E h \in AtomUniverse :
        \E M \in {storeAtom(Begin(Cur), h)} :
            /\ Becomes(M)
            /\ Called([op |-> "storeAtom", h |-> h, exc |-> M.exc])

\* extract_callback
LtRemove ==
    /\ CanCall(MaxLtOps)
    /\ \E h \in DOMAIN h2u :
        /\ Becomes(tlb_removeAtom(Begin(Cur), h))
        /\ Called([op |-> "removeAtom", h |-> h])

\* The owner of an atom gives it another truth value
LtSetTV ==
    /\ CanCall(MaxLtOps)
    /\ \E h \in AtomUniverse, tv \in LtTVs :
        /\ TlbObj(Cur, h).tv # tv
        /\ Becomes(setTruthValue(Begin(Cur), h, tv))
        /\ Called([op |-> "setTruthValue", h |-> h])

\* loadType(table, t); before: the bindings, the truth values of the bound
\* atoms and the table as they were at the call
LtLoadType ==
    /\ CanCall(MaxLtOps)
    /\ \E t \in {CONCEPT_NODE, LIST_LINK} :
        \E M \in {loadType(Begin(Cur), t)} :
            /\ Becomes(M)
            /\ Called([op |-> "loadType", t |-> t, exc |-> M.exc,
                       h2u |-> h2u, F |-> F,
                       tvs |-> [h \in DOMAIN h2u |-> TlbObj(Cur, h).tv]])

NextLoadType ==
    \/ LtStore
    \/ LtRemove
    \/ LtSetTV
    \/ LtLoadType

SpecLoadType == InitLoadType /\ [][NextLoadType]_vars

\* C22: when loadType has returned, every atom that the TLB resolved
\* before the call has the binding and the truth value in memory that it
\* had before the call, and the table's copy of it is unchanged.
C22_LoadTypeKeepsResolved ==
    (IsOp(Len(trace), "loadType") /\ Alive) =>
        \A h \in DOMAIN LastCall.h2u :
            /\ tlb_getUUID(Cur, h) = LastCall.h2u[h]
            /\ TlbObj(Cur, h).tv = LastCall.tvs[h]
            /\ h \in DOMAIN LastCall.F => (h \in DOMAIN F /\ F[h] = LastCall.F[h])

\* loadType returned after adding an atom to the table, while a resolved
\* atom, whose row it read, had another truth value in memory than in its row
C22_LoadedBesideChanged ==
    /\ IsOp(Len(trace), "loadType")
    /\ Alive
    /\ DOMAIN F # DOMAIN LastCall.F
    /\ \E h \in DOMAIN LastCall.h2u :
          \E r \in Atoms :
              /\ r.uuid = LastCall.h2u[h]
              /\ r.type = storing(Cur, LastCall.t)
              /\ RowTV(r) # LastCall.tvs[h]

(***************************************************************************)
(* SpecAlloc: one thread stores and gets atoms, which leave the TLB, and   *)
(* the store is destroyed and constructed again on the database it wrote.  *)
(* Every call records the TLB's bindings before and after it and the table *)
(* it found.                                                               *)
(***************************************************************************)
MaxAllocOps == 5

InitAlloc ==
    /\ NoThreads
    /\ trace = << >>
    /\ StateIs(Opened(EmptyDB, 1, [h \in AtomUniverse |-> NewObj]))

AllocStore ==
    /\ CanCall(MaxAllocOps)
    /\ \E h \in AtomUniverse :
        \E M \in {storeAtom(Begin(Cur), h)} :
            /\ Becomes(M)
            /\ Called([op |-> "storeAtom", h |-> h, exc |-> M.exc,
                       pre |-> h2u, h2u |-> M.h2u, rows |-> Atoms])

\* extract_callback
AllocRemove ==
    /\ CanCall(MaxAllocOps)
    /\ \E h \in DOMAIN h2u :
        /\ Becomes(tlb_removeAtom(Begin(Cur), h))
        /\ Called([op |-> "removeAtom", h |-> h, exc |-> "",
                   pre |-> h2u, h2u |-> Drop(h2u, h), rows |-> Atoms])

\* getNode, getLink: the atom is bound to the UUID of the row found
AllocGet ==
    /\ CanCall(MaxAllocOps)
    /\ \E h \in AtomUniverse :
        \E g \in {IF isNode(h) THEN getNode(Begin(Cur), h.type, h.name)
                   ELSE getLink(Begin(Cur), h.type, h.out)} :
            /\ Becomes(g.M)
            /\ Called([op |-> "getAtom", h |-> h, exc |-> g.M.exc,
                       pre |-> h2u, h2u |-> g.M.h2u, rows |-> Atoms])

\* The destructor, then the constructor on the same database
AllocRestart ==
    /\ CanCall(MaxAllocOps)
    /\ Restarts < MaxRestarts
    /\ Becomes([Opened(Cur, table_uuid, mem) EXCEPT !.log = log])
    /\ Called([op |-> "restart", h |-> NoAtom, exc |-> "",
               pre |-> [h \in {} |-> 0], h2u |-> [h \in {} |-> 0], rows |-> Atoms])

NextAlloc ==
    \/ AllocStore
    \/ AllocRemove
    \/ AllocGet
    \/ AllocRestart

SpecAlloc == InitAlloc /\ [][NextAlloc]_vars

\* The call that opened the store call i runs in (0: the first store)
OpenedAt(i) ==
    LET R == {j \in 1..i : trace[j].op = "restart"} IN
    IF R = {} THEN 0 ELSE CHOOSE j \in R : \A k \in R : k <= j

\* The UUIDs in Atoms when the store of call i was opened
UUIDsAtOpen(i) ==
    IF OpenedAt(i) = 0 THEN {} ELSE {r.uuid : r \in trace[OpenedAt(i)].rows}

\* The handles call i bound, and those it bound to the row the table
\* already had for them
BoundBy(i) == DOMAIN trace[i].h2u \ DOMAIN trace[i].pre
FoundRow(i, h) ==
    \E r \in trace[i].rows :
        /\ r.uuid = trace[i].h2u[h]
        /\ IF isNode(h) THEN r.name = Col(h.name) ELSE r.height > 0

\* The UUIDs bound in this store at some time before call i
BoundBefore(i) ==
    UNION {{trace[j].h2u[h] : h \in DOMAIN trace[j].h2u}
              : j \in {k \in 1..(i - 1) : k >= OpenedAt(i)}}

\* C23: a UUID the TLB issues for an atom that has no row is not 0, is
\* larger than every uuid Atoms had when the store was opened and was not
\* bound in this store before; and no UUID is bound to two different atoms
\* in the life of one store.
C23_FreshUUIDs ==
    /\ \A i \in DOMAIN trace : \A h \in BoundBy(i) :
           \/ FoundRow(i, h)
           \/ /\ trace[i].h2u[h] # 0
              /\ \A u \in UUIDsAtOpen(i) : trace[i].h2u[h] > u
              /\ trace[i].h2u[h] \notin BoundBefore(i)
    /\ \A i, j \in DOMAIN trace :
           OpenedAt(i) = OpenedAt(j) =>
               \A h \in DOMAIN trace[i].h2u, g \in DOMAIN trace[j].h2u :
                   h # g => trace[i].h2u[h] # trace[j].h2u[g]

\* A store opened on a table with rows has issued a UUID for an atom with
\* no row, and has bound a second atom to the row it had
C23_IssuedAfterReopen ==
    \E i, j \in DOMAIN trace :
        /\ UUIDsAtOpen(i) # {}
        /\ OpenedAt(j) = OpenedAt(i)
        /\ \E h \in BoundBy(i) : ~FoundRow(i, h)
        /\ \E g \in BoundBy(j) : FoundRow(j, g)

(***************************************************************************)
(* SpecFail: the threads of SpecStore store an atom whose truth value may  *)
(* be of a type do_store_single_atom has no columns for, so that the       *)
(* statement of the first caller throws; the atom's owner may give it a    *)
(* truth value of a known type at any time.                                *)
(***************************************************************************)
\* A truth value of a type other than the four the store writes
FuzzyTV == TV(PROBABILISTIC_TRUTH_VALUE + 1, Dbl(5, -1), Dbl(5, -1), Dbl(0, 0))

InitFail ==
    /\ trace = << >>
    /\ conn = [t \in {} |-> 0]
    /\ PoolAtRest
    /\ id_create_mutex = 0
    /\ \E e \in {TheAtom, TheLink}, tv \in {FuzzyTV, DefaultTV}, prior \in BOOLEAN :
          /\ pc = [t \in Threads |-> "get_ids"]
          /\ lcl = [t \in Threads |->
                       [e |-> e, todo |-> PostOrder(e), uuid |-> INVALID_UUID,
                        update |-> FALSE, paths |-> << >>, exc |-> ""]]
          /\ \E M \in {Opened(EmptyDB, 1,
                                [h \in AtomUniverse |->
                                    IF h = e THEN Obj(tv, NoVals) ELSE NewObj])} :
                StateIs(IF prior THEN storeAtom(M, KeyAtom) ELSE M)

\* The owner of the atom gives it a truth value the store can write
FailSetTV ==
    /\ \E h \in AtomUniverse :
        /\ TlbObj(Cur, h).tv = FuzzyTV
        /\ Becomes(setTruthValue(Cur, h, DefaultTV))
    /\ UNCHANGED << trace, pc, lcl, id_create_mutex, conn, poolvars >>

NextFail ==
    \/ NextStore
    \/ FailSetTV

SpecFail == InitFail /\ [][NextFail]_vars

\* C27: a thread that finds its UUID in id_create_cache does not wait for
\* id_create_mutex while holding it, and its call does not end in the
\* exception of a mutex locked twice: it returns to do_store_single_atom
\* to update.
C27_WaiterReturnsToUpdate ==
    \A t \in Threads :
        /\ ~(pc[t] = "hung" /\ id_create_mutex = t)
        /\ lcl[t].exc # "std::system_error"

\* The call of thread t ended in an exception of its INSERT statement
InsertThrew(t) ==
    /\ pc[t] = "done"
    /\ lcl[t].exc \notin {"", "std::system_error"}
    /\ ~lcl[t].update

\* C28: when a call whose INSERT statement threw has ended, its UUID is in
\* neither id_create_cache nor local_id_cache and the call does not hold
\* id_create_mutex.
C28_FailedInsertLeavesNoMark ==
    \A t \in Threads :
        InsertThrew(t) =>
            /\ lcl[t].uuid \notin id_create_cache
            /\ lcl[t].uuid \notin local_id_cache
            /\ id_create_mutex # t

\* C29: every UUID in local_id_cache is the uuid of a row of Atoms
\* (SpecAtom).
C29_KnownUUIDsHaveRows == local_id_cache \subseteq AtomUUIDs

\* C30: a thread executes UPDATE Atoms ... WHERE uuid = u only when the
\* INSERT of u has been executed, in every interleaving of the threads of
\* SpecStore.
C30_UpdateAfterInsert ==
    [][\A e \in log' \ log :
           e.op = "UPDATE" =>
               \E i \in log : i.op = "INSERT" /\ i.uuid = e.uuid]_vars

\* One thread has inserted a UUID and another has updated it
C30_InsertedThenUpdated ==
    \E t, w \in Threads :
        /\ t # w
        /\ \E h \in Subatoms(lcl[t].e) :
               /\ t \in TookPath(h, "INSERT")
               /\ w \in TookPath(h, "UPDATE")
               /\ LogEntry("UPDATE", h, tlb_getUUID(Cur, h), TRUE) \in log

(***************************************************************************)
(* SpecLocks: the threads of SpecStore store one node, with every lock and *)
(* unlock of id_create_mutex and id_cache_mutex a step of its own.         *)
(* lcl[t].held is the set of locks thread t holds: create_lock and         *)
(* cache_lock of maybe_create_id, lck of do_store_single_atom, lock of     *)
(* add_id_to_cache, lock of get_ids.  A thread calls storeAtom up to       *)
(* MaxCalls times.                                                         *)
(***************************************************************************)
MaxCalls == 2

CacheHolders == {t \in DOMAIN lcl : "id_cache_mutex" \in lcl[t].held}

InitLocks ==
    /\ trace = << >>
    /\ conn = [t \in {} |-> 0]
    /\ PoolAtRest
    /\ id_create_mutex = 0
    /\ pc = [t \in Threads |-> "get_ids_lock"]
    /\ \E tv \in {FuzzyTV, DefaultTV} :
        \E a \in {tlb_addAtom(
                      setup_typemap(
                          Opened(EmptyDB, 1,
                                 [h \in AtomUniverse |->
                                     IF h = TheAtom THEN Obj(tv, NoVals) ELSE NewObj])),
                      TheAtom, INVALID_UUID)} :
            /\ StateIs(a.M)
            /\ lcl = [t \in Threads |->
                         [uuid |-> a.uuid, held |-> {}, update |-> FALSE, exc |-> "",
                          calls |-> 1]]

\* Thread t moves to pc value to, with its locals l, the store unchanged
Moves(t, to, l) ==
    /\ Becomes(Cur)
    /\ Goes(t, to, l)

\* get_ids: lock(id_cache_mutex), 1481
LocksGetIdsLock(t) ==
    /\ pc[t] = "get_ids_lock"
    /\ CacheHolders = {}
    /\ Moves(t, "get_ids", [lcl[t] EXCEPT !.held = @ \cup {"id_cache_mutex"}])
    /\ UNCHANGED id_create_mutex

\* get_ids, 1483-1518; the return releases the lock
LocksGetIds(t) ==
    /\ pc[t] = "get_ids"
    /\ Becomes(get_ids(Cur))
    /\ Goes(t, "create_lock", [lcl[t] EXCEPT !.held = @ \ {"id_cache_mutex"}])
    /\ UNCHANGED id_create_mutex

\* create_lock(id_create_mutex), 1441
LocksCreate(t) ==
    /\ pc[t] = "create_lock"
    /\ id_create_mutex = 0
    /\ id_create_mutex' = t
    /\ Moves(t, "cache_lock", [lcl[t] EXCEPT !.held = @ \cup {"id_create_mutex"}])

\* cache_lock(id_cache_mutex), 1442
LocksCache(t) ==
    /\ pc[t] = "cache_lock"
    /\ CacheHolders = {}
    /\ Moves(t, "lookup", [lcl[t] EXCEPT !.held = @ \cup {"id_cache_mutex"}])
    /\ UNCHANGED id_create_mutex

LocksLookup_mut(t) ==
    /\ pc[t] = "lookup"
    /\ IF 0 < local_id_cache_count(Cur, lcl[t].uuid)
       THEN /\ Moves(t, "statement", [lcl[t] EXCEPT !.held = {}, !.update = TRUE])
            /\ id_create_mutex' = 0
       ELSE IF lcl[t].uuid \in id_create_cache
       THEN /\ Moves(t, "local_create_lock", lcl[t])
            /\ UNCHANGED id_create_mutex
       ELSE /\ Becomes([Cur EXCEPT !.id_create_cache = @ \cup {lcl[t].uuid}])
            /\ Goes(t, "statement", [lcl[t] EXCEPT !.held = {"id_create_mutex"}])
            /\ UNCHANGED id_create_mutex

\* The two tests of maybe_create_id, 1444-1473: the UUID is known (both
\* locks are released by the return), or in the making (cache_lock is
\* unlocked, 1450), or new (create_lock is returned, cache_lock released)
LocksLookup(t) ==
    /\ pc[t] = "lookup"
    /\ IF 0 < local_id_cache_count(Cur, lcl[t].uuid)
       THEN /\ Moves(t, "statement", [lcl[t] EXCEPT !.held = {}, !.update = TRUE])
            /\ id_create_mutex' = 0
       ELSE IF lcl[t].uuid \in id_create_cache
       THEN /\ Moves(t, "local_create_lock",
                     [lcl[t] EXCEPT !.held = @ \ {"id_cache_mutex"}])
            /\ UNCHANGED id_create_mutex
       ELSE /\ Becomes([Cur EXCEPT !.id_create_cache = @ \cup {lcl[t].uuid}])
            /\ Goes(t, "statement", [lcl[t] EXCEPT !.held = {"id_create_mutex"}])
            /\ UNCHANGED id_create_mutex

\* local_create_lock(id_create_mutex), 1456, by the thread that holds
\* create_lock: it waits for itself, or the lock throws std::system_error
\* and the unwinding releases create_lock
LocksWait(t) ==
    /\ pc[t] = "local_create_lock"
    /\ \/ /\ Becomes([Cur EXCEPT !.hung = TRUE])
          /\ Goes(t, "hung", lcl[t])
          /\ UNCHANGED id_create_mutex
       \/ /\ Becomes(Cur)
          /\ Goes(t, "done", [lcl[t] EXCEPT !.held = {}, !.exc = "std::system_error"])
          /\ id_create_mutex' = 0

\* The statement, 1134-1282; an exception releases lck
LocksStatement(t) ==
    /\ pc[t] = "statement"
    /\ \E M \in {store_single_statement(Begin(Cur), TheAtom, 0, lcl[t].uuid,
                                         lcl[t].update)} :
        /\ Becomes(M)
        /\ IF M.exc # ""
           THEN /\ Goes(t, "done", [lcl[t] EXCEPT !.held = {}, !.exc = M.exc])
                /\ id_create_mutex' = IF id_create_mutex = t THEN 0 ELSE id_create_mutex
           ELSE /\ Goes(t, "add_id_lock", lcl[t])
                /\ UNCHANGED id_create_mutex

\* add_id_to_cache: lock(id_cache_mutex), 1410
LocksAddIdLock(t) ==
    /\ pc[t] = "add_id_lock"
    /\ CacheHolders = {}
    /\ Moves(t, "add_id", [lcl[t] EXCEPT !.held = @ \cup {"id_cache_mutex"}])
    /\ UNCHANGED id_create_mutex

\* add_id_to_cache, 1411-1419, and the count at 1286
LocksAddId(t) ==
    /\ pc[t] = "add_id"
    /\ Becomes(store_single_done(Cur, lcl[t].uuid))
    /\ Goes(t, "return", [lcl[t] EXCEPT !.held = @ \ {"id_cache_mutex"}])
    /\ UNCHANGED id_create_mutex

\* The return of do_store_single_atom releases lck
LocksReturn(t) ==
    /\ pc[t] = "return"
    /\ Moves(t, "done", [lcl[t] EXCEPT !.held = {}])
    /\ id_create_mutex' = IF id_create_mutex = t THEN 0 ELSE id_create_mutex

\* The thread calls storeAtom again
LocksAgain(t) ==
    /\ pc[t] = "done"
    /\ lcl[t].calls < MaxCalls
    /\ Moves(t, "get_ids_lock",
             [lcl[t] EXCEPT !.calls = @ + 1, !.update = FALSE, !.exc = ""])
    /\ UNCHANGED id_create_mutex

NextLocks ==
    \E t \in Threads :
        \/ LocksGetIdsLock(t)
        \/ LocksGetIds(t)
        \/ LocksCreate(t)
        \/ LocksCache(t)
        \/ LocksLookup(t)
        \/ LocksWait(t)
        \/ LocksStatement(t)
        \/ LocksAddIdLock(t)
        \/ LocksAddId(t)
        \/ LocksReturn(t)
        \/ LocksAgain(t)

SpecLocks == InitLocks /\ [][NextLocks]_vars

\* Thread t is about to lock id_create_mutex, id_cache_mutex
WantsCreate(t) == pc[t] \in {"create_lock", "local_create_lock"}
WantsCache(t) == pc[t] \in {"get_ids_lock", "cache_lock", "add_id_lock"}

\* C31: a thread that requests id_create_mutex does not hold
\* id_cache_mutex, and no two threads wait for each other on the two
\* mutexes.
C31_CreateBeforeCache ==
    /\ \A t \in Threads : WantsCreate(t) => "id_cache_mutex" \notin lcl[t].held
    /\ \A t, w \in Threads :
           ~(/\ t # w
             /\ WantsCreate(t) /\ id_create_mutex = w
             /\ WantsCache(w) /\ t \in CacheHolders)

\* One thread asks for id_create_mutex for the second time, having held
\* and released id_cache_mutex, while another waits for it at 1441
C31_SecondRequest ==
    \E t, w \in Threads :
        /\ pc[t] = "local_create_lock"
        /\ pc[w] = "create_lock"
        /\ id_create_mutex = t

\* The VUIDs named by the linkvalue columns of Valuations, and by the
\* rows of Values reached from them
ValuationMembers ==
    Reachable(Values,
              UNION {{r.linkvalue[1][j] : j \in DOMAIN r.linkvalue[1]} :
                        r \in {q \in Valuations : q.linkvalue # NullCol}},
              {})

OnlyValuations ==
    \A i \in DOMAIN trace : trace[i].op \in {"storeValuation", "getValuation"}

\* C32: after storeValuation calls only, first stores and overwrites, the
\* VUIDs of the rows of Values are the VUIDs reachable from the linkvalue
\* columns of Valuations (SpecVal).
C32_NoOrphanedValues == OnlyValuations => VUIDs = ValuationMembers

RuntimeTypes == 0..(getNumberOfClasses - 1)

\* C34: after setup_typemap every runtime type t has a database code in
\* storing_typemap, loading_typemap maps that code back to t, two types
\* have two codes, TypeCodes has the row (code, name) of every runtime
\* type, and no code and no name is in two rows of TypeCodes (SpecTypes).
C34_TypeMapsInvertEachOther ==
    type_map_was_loaded =>
        /\ \A t \in RuntimeTypes :
               /\ storing(Cur, t) \in 0..(TYPEMAP_SZ - 1)
               /\ loading(Cur, storing(Cur, t)) = t
               /\ [type |-> storing(Cur, t), typename |-> getTypeName(t)] \in TypeCodes
        /\ \A t, u \in RuntimeTypes : t # u => storing(Cur, t) # storing(Cur, u)
        /\ \A r, q \in TypeCodes :
               (r.type = q.type \/ r.typename = q.typename) => r = q

(***************************************************************************)
(* SpecTypemap: the threads of SpecStore call setup_typemap at once on a   *)
(* store just constructed, and again later.  The test of the flag outside  *)
(* the lock, the lock, the test inside it, the clearing of the arrays, the *)
(* SELECT, the loop over the runtime's types, the setting of the flag and  *)
(* the return are steps.  lcl[t].via is the way the call of t went.        *)
(***************************************************************************)
TypemapHolders == {t \in DOMAIN lcl : "_typemap_mutex" \in lcl[t].held}

InitTypemap ==
    /\ trace = << >>
    /\ conn = [t \in {} |-> 0]
    /\ PoolAtRest
    /\ id_create_mutex = 0
    /\ pc = [t \in Threads |-> "test"]
    /\ lcl = [t \in Threads |-> [held |-> {}, via |-> "", calls |-> 1]]
    /\ \E S \in {{}, {[type |-> 1, typename |-> "ListLink"]}} :
           StateIs(Constructed([EmptyDB EXCEPT !.TypeCodes = S], 1))

\* if (type_map_was_loaded) return; 1320.  The flag is read outside the
\* lock: the read may miss a write made by another thread
TypemapTest(t) ==
    /\ pc[t] = "test"
    /\ \E seen \in {type_map_was_loaded, FALSE} :
           IF seen THEN Moves(t, "done", [lcl[t] EXCEPT !.via = "test"])
           ELSE Moves(t, "lock", lcl[t])
    /\ UNCHANGED id_create_mutex

\* lck(_typemap_mutex), 1323
TypemapLock(t) ==
    /\ pc[t] = "lock"
    /\ TypemapHolders = {}
    /\ Moves(t, "test_again", [lcl[t] EXCEPT !.held = {"_typemap_mutex"}])
    /\ UNCHANGED id_create_mutex

TypemapTestAgain_mut(t) ==
    /\ pc[t] = "test_again"
    /\ Moves(t, "clear", lcl[t])
    /\ UNCHANGED id_create_mutex

\* if (type_map_was_loaded) return; 1324
TypemapTestAgain(t) ==
    /\ pc[t] = "test_again"
    /\ IF type_map_was_loaded
       THEN Moves(t, "done", [lcl[t] EXCEPT !.held = {}, !.via = "test_again"])
       ELSE Moves(t, "clear", lcl[t])
    /\ UNCHANGED id_create_mutex

\* The arrays are set to NOTYPE, -1 and NULL, 1332-1337
TypemapClear(t) ==
    /\ pc[t] = "clear"
    /\ Becomes([Cur EXCEPT !.loading_typemap = EmptyMap,
                           !.storing_typemap = EmptyMap,
                           !.db_typename = EmptyNames])
    /\ Goes(t, "select", lcl[t])
    /\ UNCHANGED id_create_mutex

\* SELECT * FROM TypeCodes and type_cb for each row, 1339-1344
TypemapSelect(t) ==
    /\ pc[t] = "select"
    /\ Becomes(type_cb_rows(Cur, TypeCodes))
    /\ pc' = [pc EXCEPT ![t] = "types"]
    /\ trace' = Append(trace, [op |-> "reconcile", t |-> t])
    /\ UNCHANGED << lcl, id_create_mutex, conn, poolvars >>

\* The loop over the runtime's types, 1346-1387
TypemapTypes(t) ==
    /\ pc[t] = "types"
    /\ Becomes(setup_typemap_types(Cur, 0))
    /\ Goes(t, "set", lcl[t])
    /\ UNCHANGED id_create_mutex

\* type_map_was_loaded = true, 1390
TypemapSet(t) ==
    /\ pc[t] = "set"
    /\ Becomes([Cur EXCEPT !.type_map_was_loaded = TRUE])
    /\ Goes(t, "return", lcl[t])
    /\ UNCHANGED id_create_mutex

\* The return releases lck
TypemapReturn(t) ==
    /\ pc[t] = "return"
    /\ Moves(t, "done", [lcl[t] EXCEPT !.held = {}, !.via = "set"])
    /\ UNCHANGED id_create_mutex

\* The thread calls setup_typemap again
TypemapAgain(t) ==
    /\ pc[t] = "done"
    /\ lcl[t].calls < MaxCalls
    /\ Moves(t, "test", [lcl[t] EXCEPT !.calls = @ + 1, !.via = ""])
    /\ UNCHANGED id_create_mutex

NextTypemap ==
    \E t \in Threads :
        \/ TypemapTest(t)
        \/ TypemapLock(t)
        \/ TypemapTestAgain(t)
        \/ TypemapClear(t)
        \/ TypemapSelect(t)
        \/ TypemapTypes(t)
        \/ TypemapSet(t)
        \/ TypemapReturn(t)
        \/ TypemapAgain(t)

SpecTypemap == InitTypemap /\ [][NextTypemap]_vars

\* Both arrays have their entries for every runtime type
Populated ==
    \A k \in RuntimeTypes :
        /\ storing(Cur, k) # -1
        /\ loading(Cur, storing(Cur, k)) = k

Reconciliations == {i \in DOMAIN trace : trace[i].op = "reconcile"}

\* C33: TypeCodes is read and completed at most once, once when a call of
\* setup_typemap has returned, and a call has returned only with both
\* arrays populated.
C33_ReconciledOnce ==
    /\ Cardinality(Reconciliations) <= 1
    /\ \A t \in Threads :
           pc[t] = "done" => Cardinality(Reconciliations) = 1 /\ Populated

\* Two first calls at once have returned: one did the work, the other
\* waited for the lock and found the flag set
C33_SecondFoundFlag ==
    \E t, w \in Threads :
        /\ pc[t] = "done" /\ lcl[t].via = "set" /\ lcl[t].calls = 1
        /\ pc[w] = "done" /\ lcl[w].via = "test_again" /\ lcl[w].calls = 1

(***************************************************************************)
(* SpecHeight: atoms of height 0 to 3, links with an empty outgoing set    *)
(* among them, are stored by do_store_atom, which computes the height as   *)
(* it returns from its recursion, and by store_cb, which asks get_height.  *)
(***************************************************************************)
MaxHeightOps == 3
MaxHeight == 3

TallLink == createLink(LIST_LINK, << EmptyLink, createLink(LIST_LINK, << TheLink >>) >>)
HeightUniverse == Subatoms(TallLink) \cup {KeyAtom}

InitHeight ==
    /\ NoThreads
    /\ trace = << >>
    /\ StateIs(Opened(EmptyDB, 1, [h \in HeightUniverse |-> NewObj]))

\* storeAtom, synchronous: get_ids and do_store_atom
HeightStoreAtom ==
    /\ CanCall(MaxHeightOps)
    /\ \E h \in HeightUniverse :
        \E r \in {do_store_atom(get_ids(Begin(Cur)), h)} :
            /\ Becomes(r.M)
            /\ Called([op |-> "do_store_atom", h |-> h, height |-> r.height,
                       exc |-> r.M.exc])

\* store_cb, for one atom of the table that store() walks
HeightStoreCb ==
    /\ CanCall(MaxHeightOps)
    /\ \E h \in HeightUniverse :
        \E M \in {store_cb(Begin(Cur), h)} :
            /\ Becomes(M)
            /\ Called([op |-> "store_cb", h |-> h, height |-> get_height(h),
                       exc |-> M.exc])

NextHeight ==
    \/ HeightStoreAtom
    \/ HeightStoreCb

SpecHeight == InitHeight /\ [][NextHeight]_vars

\* The height as stated: 0 for a node, 1 + the largest height of a member
\* for a link, 1 for a link with no member
RECURSIVE StatedHeight(_)
StatedHeight(h) ==
    IF isNode(h) THEN 0
    ELSE 1 + (CHOOSE m \in 0..MaxHeight :
                 /\ \A i \in DOMAIN h.out : StatedHeight(h.out[i]) <= m
                 /\ m = 0 \/ \E i \in DOMAIN h.out : StatedHeight(h.out[i]) = m)

\* C35: do_store_atom returns, and get_height computes, 0 for a node and
\* 1 + the largest height of a member for a link, and that is the height
\* in the row of every atom either path has written.
C35_HeightsAgree ==
    /\ \A i \in DOMAIN trace : trace[i].height = StatedHeight(trace[i].h)
    /\ \A h \in HeightUniverse :
           /\ get_height(h) = StatedHeight(h)
           /\ \A r \in Atoms :
                  r.uuid = tlb_getUUID(Cur, h) => r.height = StatedHeight(h)

\* One path has written the tall link and its empty member, the other an
\* atom beside them
C35_BothPathsWrote ==
    /\ \E i \in DOMAIN trace : trace[i].op = "do_store_atom" /\ trace[i].h = TallLink
    /\ \E i \in DOMAIN trace : trace[i].op = "store_cb" /\ ~isNode(trace[i].h)
    /\ \A h \in {TallLink, EmptyLink} : \E r \in Atoms : r.uuid = tlb_getUUID(Cur, h)

\* C36: load() after store() builds one atom for each row of Atoms and no
\* other: no member of a link is fetched by a query of its own (makeAtom
\* counts every atom built in load_count, those of petAtom too), and none
\* is missing when its link is built (SpecBulk).
C36_LoadFetchesNoMember ==
    IsOp(Len(trace), "load") =>
        /\ ~crashed
        /\ exc = ""
        /\ load_count = Cardinality(Atoms)

(***************************************************************************)
(* SpecChunks: the loop  for (rec = 0; rec <= max_nrec; rec += STEP)  of   *)
(* load, loadType and get_ids, one query a step, for every chunk size up   *)
(* to MaxStep and every set of uuids up to MaxUuid in Atoms.  Atoms.uuid   *)
(* is a BIGINT, so rec + STEP stays within an unsigned long.               *)
(***************************************************************************)
MaxStep == 4
MaxUuid == 6

InitChunks ==
    /\ trace = << >>
    /\ conn = [t \in {} |-> 0]
    /\ PoolAtRest
    /\ id_create_mutex = 0
    /\ StateIs(Constructed(EmptyDB, 1))
    /\ pc = [m \in {0} |-> "query"]
    /\ \E step \in 1..MaxStep, U \in SUBSET (1..MaxUuid) :
           lcl = [m \in {0} |->
                     [rec |-> 0, step |-> step, uuids |-> U,
                      max_nrec |-> IF U = {} THEN 0
                                   ELSE CHOOSE u \in U : \A v \in U : v <= u]]

\* One query of the loop: the uuids its WHERE clause selects
ChunksQuery ==
    /\ pc[0] = "query"
    /\ lcl[0].rec <= lcl[0].max_nrec
    /\ trace' = Append(trace,
                       [rec |-> lcl[0].rec,
                        rows |-> {u \in lcl[0].uuids :
                                     InChunk(u, lcl[0].rec, lcl[0].step)}])
    /\ lcl' = [lcl EXCEPT ![0].rec = @ + lcl[0].step]
    /\ UNCHANGED << storevars, pc, id_create_mutex, conn, poolvars >>

\* rec <= max_nrec fails: the loop ends
ChunksEnd ==
    /\ pc[0] = "query"
    /\ lcl[0].rec > lcl[0].max_nrec
    /\ pc' = [pc EXCEPT ![0] = "done"]
    /\ UNCHANGED << storevars, trace, lcl, id_create_mutex, conn, poolvars >>

NextChunks ==
    \/ ChunksQuery
    \/ ChunksEnd

SpecChunks == InitChunks /\ [][NextChunks]_vars

\* The queries that selected uuid u
SelectedBy(u) == {i \in DOMAIN trace : u \in trace[i].rows}

\* C37: no uuid is selected by two queries of the loop, and when the loop
\* has ended every uuid of Atoms has been selected by one; the chunks the
\* bulk operations use (InChunks) are those of the loop.
C37_ChunksPartition ==
    \A u \in lcl[0].uuids :
        /\ Cardinality(SelectedBy(u)) <= 1
        /\ pc[0] = "done" =>
               /\ Cardinality(SelectedBy(u)) = 1
               /\ InChunks(u, lcl[0].max_nrec, lcl[0].step)

\* The loop has ended over a largest uuid that is a multiple of the chunk
\* size, after more than two queries
C37_MaxIsMultiple ==
    /\ pc[0] = "done"
    /\ lcl[0].step > 1
    /\ lcl[0].max_nrec = 2 * lcl[0].step
    /\ Len(trace) = 3
    /\ Cardinality(lcl[0].uuids) > 2

\* The rows of Atoms that hold atom a: its type, its name or the uuids of
\* its members, its height and its truth value
RowsOf(a) ==
    {r \in Atoms :
        /\ r.type = storing(Cur, a.type)
        /\ r.height = get_height(a)
        /\ r.name = (IF isNode(a) THEN Col(a.name) ELSE NullCol)
        /\ r.outgoing =
               (IF isNode(a) THEN NullCol
                ELSE Col(bigint_array_in(ids_to_string(
                         [i \in DOMAIN a.out |-> tlb_getUUID(Cur, a.out[i])])).elems))
        /\ \A i \in DOMAIN a.out :
               \E c \in Atoms : c.uuid = tlb_getUUID(Cur, a.out[i])
        /\ TVCols(RowTV(r)) = TVCols(TlbObj(Cur, a).tv)}

\* The atoms the queued stores are to write
QueuedAtoms == UNION {Subatoms(trace[i].h) : i \in Queued}

\* C38: once the barrier has returned, Atoms holds one row for every atom
\* that was queued and for every atom below it, and no other row, whatever
\* the order in which the writers took the atoms and ran.
C38_ContentFixedByQueuedSet ==
    pc[0] = "flushed" =>
        /\ \A a \in QueuedAtoms : Cardinality(RowsOf(a)) = 1
        /\ Cardinality(Atoms) = Cardinality(QueuedAtoms)

(***************************************************************************)
(* SpecRetry: the statement of do_store_single_atom and its second try.    *)
(* The storage is opened on a database that holds the row of TheAtom,      *)
(* and of KeyAtom, written by an earlier storage, so that their INSERTs    *)
(* are rejected and the INSERT of FreshAtom is not.  The atoms are in a    *)
(* table whose get_environ() chain is lcl[0].env (the atom's table first;  *)
(* empty when getAtomTable gives NULL).                                    *)
(***************************************************************************)
MaxRetryOps == 2

\* The chains of tables: no table, a table without environ, a table
\* within another
TableChains == {<< >>, << 1 >>, << 2 >>, << 3, 2 >>}

RECURSIVE store_atomtable_ids(_, _)

store_atomtable_ids_mut(M, env) ==
    IF env = << >> \/ Head(env) \in M.table_id_cache
    THEN [M |-> M, rows |-> << >>]
    ELSE Let(store_atomtable_ids(
                 [M EXCEPT !.table_id_cache = @ \cup {Head(env)},
                           !.Spaces = @ \cup {Head(env)}], Tail(env)),
             LAMBDA p :
                 [M |-> p.M,
                  rows |-> << [space |-> Head(env),
                               parent |-> IF Tail(env) = << >> THEN 1
                                          ELSE env[2]] >> \o p.rows])

\* store_atomtable_id(at) with its recursion into the environ: the state
\* afterwards and the rows inserted into Spaces, in the order of the INSERTs
store_atomtable_ids(M, env) ==
    IF env = << >> \/ Head(env) \in M.table_id_cache
    THEN [M |-> M, rows |-> << >>]
    ELSE Let(store_atomtable_ids(
                 [M EXCEPT !.table_id_cache = @ \cup {Head(env)}], Tail(env)),
             LAMBDA p :
                 [M |-> [p.M EXCEPT !.Spaces = @ \cup {Head(env)}],
                  rows |-> Append(p.rows,
                                  [space |-> Head(env),
                                   parent |-> IF Tail(env) = << >> THEN 1
                                              ELSE env[2]])])

FreshAtom == createNode(CONCEPT_NODE, "b")

\* The database an earlier storage left: the rows of TheAtom and KeyAtom,
\* and the rows of Spaces for the last n tables of the chain
RetryDB(env, n) ==
    [do_store_atom(
         do_store_atom(Begin(Opened(EmptyDB, 1,
                                    [h \in {TheAtom, KeyAtom} |-> NewObj])),
                       TheAtom).M, KeyAtom).M
        EXCEPT !.Spaces = @ \cup {env[i] : i \in (Len(env) - n + 1)..Len(env)}]

InitRetry ==
    /\ trace = << >>
    /\ id_create_mutex = 0
    /\ conn = [t \in {} |-> 0]
    /\ PoolAtRest
    /\ pc = [t \in {0} |-> "idle"]
    /\ \E env \in TableChains : \E n \in 0..Len(env) :
        /\ lcl = [t \in {0} |-> [env |-> env, call |-> 0]]
        /\ StateIs(Opened(RetryDB(env, n), IF env = << >> THEN 1 ELSE Head(env),
                          [h \in {TheAtom, KeyAtom, FreshAtom} |-> NewObj]))

\* do_store_single_atom up to the statement text (1112-1262)
RetryStore ==
    /\ pc[0] = "idle"
    /\ lcl[0].call < MaxRetryOps
    /\ \E h \in {TheAtom, KeyAtom, FreshAtom} :
        LET a == tlb_addAtom(setup_typemap(get_ids(Begin(Cur))), h, INVALID_UUID)
            update == 0 < local_id_cache_count(a.M, a.uuid)
        IN  /\ Becomes(IF update THEN a.M
                       ELSE [a.M EXCEPT !.id_create_cache = @ \cup {a.uuid}])
            /\ lcl' = [lcl EXCEPT ![0] =
                   [env |-> lcl[0].env, call |-> lcl[0].call + 1,
                    h |-> h, uuid |-> a.uuid, update |-> update,
                    row |-> AtomsRow(a.uuid, IF lcl[0].env = << >> THEN 0 ELSE 1,
                                     storing(a.M, h.type), 0, Col(h.name),
                                     NullCol, TVCols(TlbObj(a.M, h).tv))]]
    /\ pc' = [pc EXCEPT ![0] = "exec"]
    /\ UNCHANGED << trace, id_create_mutex, conn, poolvars >>

\* rp.exec(qry): the statement, and what it did to Atoms
Statement(M, l) ==
    IF l.update THEN update_Atoms(M, l.uuid, TVCols(TlbObj(M, l.h).tv))
    ELSE insert_Atoms(M, l.row)
StatementOk(M, l) == l.update \/ insert_Atoms_ok(M, l.row)

\* 1269-1273: the first execution; try_again when it gave no result
RetryExec ==
    /\ pc[0] = "exec"
    /\ Becomes(Statement(Cur, lcl[0]))
    /\ trace' = Append(trace, [op |-> "exec", call |-> lcl[0].call,
                               ok |-> StatementOk(Cur, lcl[0]),
                               spaces |-> Spaces])
    /\ pc' = [pc EXCEPT ![0] = IF StatementOk(Cur, lcl[0]) THEN "note"
                               ELSE "spaces"]
    /\ UNCHANGED << lcl, id_create_mutex, conn, poolvars >>

\* The rows of Spaces a store inserted, each with Spaces as it was before
RECURSIVE SpacesWrites(_, _, _)
SpacesWrites(rows, spaces, call) ==
    IF rows = << >> THEN << >>
    ELSE << [op |-> "Spaces", call |-> call, space |-> Head(rows).space,
             parent |-> Head(rows).parent, spaces |-> spaces] >>
         \o SpacesWrites(Tail(rows), spaces \cup {Head(rows).space}, call)

\* 1277-1278: if (at) store_atomtable_id(*at)
RetrySpaces ==
    /\ pc[0] = "spaces"
    /\ LET s == store_atomtable_ids(Cur, lcl[0].env)
       IN  /\ Becomes(s.M)
           /\ trace' = trace \o SpacesWrites(s.rows, Spaces, lcl[0].call)
    /\ pc' = [pc EXCEPT ![0] = "again"]
    /\ UNCHANGED << lcl, id_create_mutex, conn, poolvars >>

\* 1280-1281: the second execution
RetryAgain ==
    /\ pc[0] = "again"
    /\ Becomes(Statement(Cur, lcl[0]))
    /\ trace' = Append(trace, [op |-> "exec", call |-> lcl[0].call,
                               ok |-> StatementOk(Cur, lcl[0]),
                               spaces |-> Spaces])
    /\ pc' = [pc EXCEPT ![0] = "note"]
    /\ UNCHANGED << lcl, id_create_mutex, conn, poolvars >>

\* 1285-1286: add_id_to_cache(uuid); _store_count ++
RetryNote ==
    /\ pc[0] = "note"
    /\ Becomes(store_single_done(Cur, lcl[0].uuid))
    /\ pc' = [pc EXCEPT ![0] = "idle"]
    /\ UNCHANGED << trace, lcl, id_create_mutex, conn, poolvars >>

NextRetry ==
    \/ RetryStore
    \/ RetryExec
    \/ RetrySpaces
    \/ RetryAgain
    \/ RetryNote

SpecRetry == InitRetry /\ [][NextRetry]_vars

\* The executions of the statement of store number n, and the INSERTs
\* into Spaces
Execs(n) == {i \in DOMAIN trace : trace[i].op = "exec" /\ trace[i].call = n}
SpaceRows == {i \in DOMAIN trace : trace[i].op = "Spaces"}

\* C40: a store executes its statement at most twice; a second execution
\* follows a first that failed, and every failed first execution is
\* followed by one once the store is over; at the second execution the
\* atom's table and every table of its environ chain has its row in
\* Spaces; every row of Spaces is inserted at most once, between the two
\* executions, and after the row of its parent.
C40_RetriedOnceAfterSpaces ==
    /\ \A n \in 1..MaxRetryOps :
        /\ Cardinality(Execs(n)) <= 2
        /\ \A i, j \in Execs(n) :
               i < j =>
                   /\ ~trace[i].ok
                   /\ \A k \in DOMAIN lcl[0].env :
                          lcl[0].env[k] \in trace[j].spaces
                   /\ \A k \in SpaceRows :
                          trace[k].call = n => i < k /\ k < j
        /\ \A i \in Execs(n) :
               (/\ ~trace[i].ok
                /\ \A j \in Execs(n) : i <= j
                /\ (lcl[0].call > n \/ pc[0] \in {"note", "idle"}))
               => Cardinality(Execs(n)) = 2
    /\ \A k \in SpaceRows :
        /\ trace[k].parent \in trace[k].spaces
        /\ trace[k].space \notin trace[k].spaces
        /\ \E n \in 1..MaxRetryOps : \E i \in Execs(n) : i < k /\ trace[k].call = n
        /\ \A m \in SpaceRows : trace[m].space = trace[k].space => m = k

\* Two stores were rejected and tried again: the first wrote the rows of
\* table 3 and of its environ 2 in between, the second wrote none
C40_RetriedTwice ==
    /\ pc[0] = "idle"
    /\ Len(trace) = 6
    /\ trace[1].op = "exec" /\ ~trace[1].ok
    /\ trace[2].op = "Spaces" /\ trace[2].space = 2
    /\ trace[3].op = "Spaces" /\ trace[3].space = 3
    /\ trace[4].op = "exec" /\ trace[4].call = 1
    /\ trace[5].op = "exec" /\ trace[6].op = "exec" /\ trace[6].call = 2

(***************************************************************************)
(* SpecDeep: one thread calls getValue, getValuation, deleteValue and      *)
(* deleteValuation on LinkValues nested up to DeepestNest deep, with the   *)
(* pool at its initial size.  Every level of doGetValue and of deleteValue *)
(* has a Response of its own, which has taken its connection before the    *)
(* call for the members is made and gives it back when that has returned.  *)
(***************************************************************************)
DeepestNest == initial_conn_pool_size

\* getValuation: doGetValue on the row of Valuations, then as getValue
prog_getValuation(d) == prog_getValue(d)

DeepCalls ==
    {prog_getValue(d) : d \in 0..DeepestNest}
        \cup {prog_getValuation(d) : d \in 0..DeepestNest}
        \cup {prog_deleteValue(d) : d \in 0..DeepestNest}
        \cup {prog_deleteValuation(d) : d \in 0..DeepestNest}

InitDeep == InitPool

DeepCall(t) ==
    /\ pc[t] = "idle"
    /\ \E prog \in DeepCalls :
        PoolStep(t, "run", [lcl[t] EXCEPT !.prog = prog], conn_pool)

NextDeep ==
    \/ \E t \in PoolThreads : DeepCall(t)
    \/ \E t \in PoolThreads : PoolResponse(t)
    \/ \E t \in PoolThreads : PoolExec(t)
    \/ \E t \in PoolThreads : PoolDtor(t)
    \/ \E t \in PoolThreads : PoolNoThrow(t)
    \/ \E t \in PoolThreads : PoolThrow(t)
    \/ \E t \in PoolThreads : PoolReturn(t)

SpecDeep == InitDeep /\ [][NextDeep]_vars

\* The connections the Responses of thread t hold
HeldBy(t) == Cardinality({i \in DOMAIN lcl[t].frames : lcl[t].frames[i]})

\* C39: a thread inside getValue, getValuation, deleteValue or
\* deleteValuation never comes to an exec that must take a connection
\* while the thread itself holds every connection of the pool, so that
\* the call ends whatever the nesting depth of the LinkValue.
C39_NeverNeedsMoreThanPool ==
    \A t \in PoolThreads :
        ~(/\ Runs(t, "exec")
          /\ ~lcl[t].frames[Len(lcl[t].frames)]
          /\ HeldBy(t) = initial_conn_pool_size
          /\ conn_pool = 0)

=============================================================================
